---- MODULE Spec2Model ----
(***************************************************************************)
(* ScoutComp backend: the completion ledger, the rate-limit window         *)
(* calculator and the review state machine (backend/app/routers/tasks.py,  *)
(* backend/app/routers/completions.py, backend/app/translation.py).        *)
(*                                                                         *)
(* Time is counted in hours.  Optional integer columns (ids, timestamps,   *)
(* limits: all non-negative when set) use None; optional enumerations and  *)
(* texts use NoneS.                                                        *)
(***************************************************************************)
EXTENDS Integers, Sequences, FiniteSets, TLC

None == 0 - 1
NoneS == "None"

\* ---- bounds of the model ------------------------------------------------
MaxTime == 3
MaxSubmissions == 3
MaxCount == 2
MaxReviewTime == 1
MaxCompletions == 1
MaxNotifications == 2

\* ---- enumerations (models.py) -------------------------------------------
PENDING == "pending"
APPROVED == "approved"
REJECTED == "rejected"
CompletionStatus == {PENDING, APPROVED, REJECTED}

ADMIN == "admin"
MEMBER == "member"
GROUP_ADMIN == "group_admin"

HOUR == "hour"
DAY == "day"
WEEK == "week"
MONTH == "month"
TaskPeriodUnit == {HOUR, DAY, WEEK, MONTH}

\* ---- users (rows of the users table; not changed by the operations here) -
Users ==
    (1 :> [role |-> MEMBER, team_id |-> 1, preferred_language |-> "en", managed_teams |-> {}])
 @@ (2 :> [role |-> MEMBER, team_id |-> 2, preferred_language |-> "sk", managed_teams |-> {}])
 @@ (3 :> [role |-> MEMBER, team_id |-> None, preferred_language |-> "cs", managed_teams |-> {}])
 @@ (4 :> [role |-> ADMIN, team_id |-> None, preferred_language |-> "cs", managed_teams |-> {}])
 @@ (5 :> [role |-> GROUP_ADMIN, team_id |-> 1, preferred_language |-> "cs", managed_teams |-> {1}])
 @@ (6 :> [role |-> GROUP_ADMIN, team_id |-> 2, preferred_language |-> "cs", managed_teams |-> {}])

UserIds == DOMAIN Users

\* ---- teams (rows of the teams table) ------------------------------------
TeamIds == {1, 2}

\* ---- task variants (rows of task_variants) ------------------------------
Variants == (1 :> [task_id |-> 1, points |-> 5])

VariantIds == DOMAIN Variants

VARIABLES
    tasks,          \* tasks table: task id -> row
    completions,    \* completions table: sequence of rows, id = position
    notifications,  \* notifications table: sequence of rows
    now,            \* the clock (hours)
    inflight        \* submissions that passed the checks but have not committed

vars == <<tasks, completions, notifications, now, inflight>>

db == <<tasks, completions, notifications>>

\* ---- request inputs -----------------------------------------------------
TaskIds == {1, 2}
Submitters == {1, 2}
Counts == 0 .. MaxCount
ReqIds == {1, 2}

\* CompletionSubmission.count: Field(default=1, ge=1, le=999)
CountValid(count) == count >= 1 /\ count <= 999

\* ---- rate-limit window calculator (tasks.py) ----------------------------
_window_delta(task) ==
    IF task.max_per_period = None \/ task.period_unit = NoneS \/ task.period_count = None
    THEN None
    ELSE CASE task.period_unit = HOUR  -> task.period_count
           [] task.period_unit = DAY   -> 24 * task.period_count
           [] task.period_unit = WEEK  -> 168 * task.period_count
           [] task.period_unit = MONTH -> 24 * (30 * task.period_count)

\* the rolling window [now - delta, now) (defined in tasks.py, used by no handler)
_window_bounds(task, t) ==
    LET delta == _window_delta(task) IN
    IF delta = None \/ delta = 0 THEN <<None, None>> ELSE <<t - delta, (t - delta) + delta>>

\* func.sum(Completion.count) over the rows of the ledger with the given ids
RECURSIVE SumCount(_, _)
SumCount(ledger, ids) ==
    IF ids = {} THEN 0
    ELSE LET i == CHOOSE x \in ids : TRUE
         IN ledger[i].count + SumCount(ledger, ids \ {i})

_current_window_stats_rolling(ledger, task, tid, member, t) ==
    LET bounds == _window_bounds(task, t)
        rows == {i \in DOMAIN ledger :
                    /\ ledger[i].task_id = tid
                    /\ ledger[i].member_id = member
                    /\ ledger[i].status # REJECTED
                    /\ ledger[i].submitted_at >= bounds[1]
                    /\ ledger[i].submitted_at < bounds[2]}
    IN IF bounds[1] = None THEN <<0, None, None>>
       ELSE <<SumCount(ledger, rows), bounds[1], bounds[2]>>

_current_window_stats_since_start(ledger, task, tid, member, t) ==
    LET delta == _window_delta(task) IN
    IF delta = None \/ delta = 0
    THEN <<0, None, None>>
    ELSE LET start == IF task.start_time # None THEN task.start_time ELSE t
             window_start == IF t < start THEN start
                             ELSE start + ((t - start) \div delta) * delta
             window_end == window_start + delta
             rows == {i \in DOMAIN ledger :
                         /\ ledger[i].task_id = tid
                         /\ ledger[i].member_id = member
                         /\ ledger[i].status # REJECTED
                         /\ ledger[i].submitted_at < window_end}
         IN <<SumCount(ledger, rows), window_start, window_end>>

_current_window_stats_own_rows(ledger, task, tid, member, t) ==
    LET delta == _window_delta(task) IN
    IF delta = None \/ delta = 0
    THEN <<0, None, None>>
    ELSE LET start == IF task.start_time # None THEN task.start_time ELSE t
             window_start == IF t < start THEN start
                             ELSE start + ((t - start) \div delta) * delta
             window_end == window_start + delta
             rows == {i \in DOMAIN ledger :
                         /\ ledger[i].task_id = tid
                         /\ ledger[i].member_id = member
                         /\ ledger[i].status # REJECTED
                         /\ ledger[i].reviewer_id = None
                         /\ ledger[i].submitted_at >= window_start
                         /\ ledger[i].submitted_at < window_end}
         IN <<SumCount(ledger, rows), window_start, window_end>>

_current_window_stats_from_now(ledger, task, tid, member, t) ==
    LET delta == _window_delta(task) IN
    IF delta = None \/ delta = 0
    THEN <<0, None, None>>
    ELSE LET start == t
             window_start == IF t < start THEN start
                             ELSE start + ((t - start) \div delta) * delta
             window_end == window_start + delta
             rows == {i \in DOMAIN ledger :
                         /\ ledger[i].task_id = tid
                         /\ ledger[i].member_id = member
                         /\ ledger[i].status # REJECTED
                         /\ ledger[i].submitted_at >= window_start
                         /\ ledger[i].submitted_at < window_end}
         IN <<SumCount(ledger, rows), window_start, window_end>>

_current_window_stats_end_inclusive(ledger, task, tid, member, t) ==
    LET delta == _window_delta(task) IN
    IF delta = None \/ delta = 0
    THEN <<0, None, None>>
    ELSE LET start == IF task.start_time # None THEN task.start_time ELSE t
             window_start == IF t < start THEN start
                             ELSE start + ((t - start) \div delta) * delta
             window_end == window_start + delta
             rows == {i \in DOMAIN ledger :
                         /\ ledger[i].task_id = tid
                         /\ ledger[i].member_id = member
                         /\ ledger[i].status # REJECTED
                         /\ ledger[i].submitted_at >= window_start
                         /\ ledger[i].submitted_at <= window_end}
         IN <<SumCount(ledger, rows), window_start, window_end>>

_current_window_stats_unanchored(ledger, task, tid, member, t) ==
    LET delta == _window_delta(task) IN
    IF delta = None \/ delta = 0
    THEN <<0, None, None>>
    ELSE LET start == IF task.start_time # None THEN task.start_time ELSE t
             window_start == start + ((t - start) \div delta) * delta
             window_end == window_start + delta
             rows == {i \in DOMAIN ledger :
                         /\ ledger[i].task_id = tid
                         /\ ledger[i].member_id = member
                         /\ ledger[i].status # REJECTED
                         /\ ledger[i].submitted_at >= window_start
                         /\ ledger[i].submitted_at < window_end}
         IN <<SumCount(ledger, rows), window_start, window_end>>

_current_window_stats(ledger, task, tid, member, t) ==
    LET delta == _window_delta(task) IN
    IF delta = None \/ delta = 0
    THEN <<0, None, None>>
    ELSE LET start == IF task.start_time # None THEN task.start_time ELSE t
             window_start == IF t < start THEN start
                             ELSE start + ((t - start) \div delta) * delta
             window_end == window_start + delta
             rows == {i \in DOMAIN ledger :
                         /\ ledger[i].task_id = tid
                         /\ ledger[i].member_id = member
                         /\ ledger[i].status # REJECTED
                         /\ ledger[i].submitted_at >= window_start
                         /\ ledger[i].submitted_at < window_end}
         IN <<SumCount(ledger, rows), window_start, window_end>>

Max(a, b) == IF a >= b THEN a ELSE b

_calculate_progress_unclamped(ledger, task, tid, member, t) ==
    LET rows == {i \in DOMAIN ledger :
                    /\ ledger[i].task_id = tid
                    /\ ledger[i].member_id = member
                    /\ ledger[i].status # REJECTED}
        total_all == SumCount(ledger, rows)
        stats == _current_window_stats(ledger, task, tid, member, t)
    IN IF task.max_per_period = None
       THEN [current |-> total_all, remaining |-> None, limit |-> None,
             period_start |-> None, period_end |-> None, lifetime |-> total_all]
       ELSE [current |-> stats[1],
             remaining |-> task.max_per_period - stats[1],
             limit |-> task.max_per_period,
             period_start |-> stats[2], period_end |-> stats[3],
             lifetime |-> total_all]

_calculate_progress(ledger, task, tid, member, t) ==
    LET rows == {i \in DOMAIN ledger :
                    /\ ledger[i].task_id = tid
                    /\ ledger[i].member_id = member
                    /\ ledger[i].status # REJECTED}
        total_all == SumCount(ledger, rows)
        stats == _current_window_stats(ledger, task, tid, member, t)
    IN IF task.max_per_period = None
       THEN [current |-> total_all, remaining |-> None, limit |-> None,
             period_start |-> None, period_end |-> None, lifetime |-> total_all]
       ELSE [current |-> stats[1],
             remaining |-> Max(task.max_per_period - stats[1], 0),
             limit |-> task.max_per_period,
             period_start |-> stats[2], period_end |-> stats[3],
             lifetime |-> total_all]

\* ---- submission (tasks.py) ----------------------------------------------
_assert_task_access_ignoring_archive(task, user) ==
    IF task.team_id # None /\ user.role # ADMIN /\ task.team_id # user.team_id
    THEN "Forbidden"
    ELSE "ok"

_assert_task_access(task, user) ==
    IF task.team_id # None /\ user.role # ADMIN /\ task.team_id # user.team_id
    THEN "Forbidden"
    ELSE IF task.is_archived THEN "Gone" ELSE "ok"

_assert_task_window_ignoring_end(task, t) ==
    IF task.start_time # None /\ task.start_time > t THEN "BadRequest" ELSE "ok"

_assert_task_window(task, t) ==
    IF task.start_time # None /\ task.start_time > t THEN "BadRequest"
    ELSE IF task.end_time # None /\ task.end_time < t THEN "BadRequest"
    ELSE "ok"

limit_reached_off_by_one(progress, count) ==
    progress.remaining # None /\ count > progress.remaining + 1

\* count > progress.remaining, when a limit is configured
limit_reached(progress, count) == progress.remaining # None /\ count > progress.remaining

\* the outcome of the checks of submit_completion, in the order of the code
SubmitResult(m, tid, count) ==
    IF ~CountValid(count) THEN "ValidationError"
    ELSE IF tid \notin DOMAIN tasks THEN "NotFound"
    ELSE IF _assert_task_access(tasks[tid], Users[m]) # "ok"
         THEN _assert_task_access(tasks[tid], Users[m])
    ELSE IF _assert_task_window(tasks[tid], now) # "ok" THEN "BadRequest"
    ELSE LET progress == _calculate_progress(completions, tasks[tid], tid, m, now)
         IN IF limit_reached(progress, count) THEN "BadRequest" ELSE "ok"

NewSubmission_awarding_pending(m, tid, count) ==
    LET task == tasks[tid]
        status_target == IF task.requires_approval THEN PENDING ELSE APPROVED
    IN [member_id |-> m, task_id |-> tid, variant_id |-> None,
        status |-> status_target,
        submitted_at |-> None,
        reviewed_at |-> IF status_target = APPROVED THEN now ELSE None,
        reviewer_id |-> None,
        admin_note |-> NoneS,
        count |-> count,
        points_awarded |-> task.points_per_completion * count]

\* the Completion object submit_completion builds (submitted_at is filled in
\* by the column default when the row is inserted)
NewSubmission(m, tid, count) ==
    LET task == tasks[tid]
        status_target == IF task.requires_approval THEN PENDING ELSE APPROVED
    IN [member_id |-> m, task_id |-> tid, variant_id |-> None,
        status |-> status_target,
        submitted_at |-> None,
        reviewed_at |-> IF status_target = APPROVED THEN now ELSE None,
        reviewer_id |-> None,
        admin_note |-> NoneS,
        count |-> count,
        points_awarded |-> IF status_target = APPROVED
                           THEN task.points_per_completion * count ELSE 0]

NoRequest == [member_id |-> None]

Submit(m, tid, count) ==
    /\ LET r == SubmitResult(m, tid, count) IN
       IF r = "ok"
       THEN completions' = Append(completions,
                [NewSubmission(m, tid, count) EXCEPT !.submitted_at = now])
       ELSE UNCHANGED completions
    /\ UNCHANGED <<tasks, notifications, now, inflight>>

\* submit_completion up to the construction of the row: the checks have passed
\* and the transaction has not committed yet
SubmitBegin(p, m, tid, count) ==
    /\ inflight[p] = NoRequest
    /\ LET r == SubmitResult(m, tid, count) IN
       IF r = "ok"
       THEN inflight' = [inflight EXCEPT ![p] = NewSubmission(m, tid, count)]
       ELSE UNCHANGED inflight
    /\ UNCHANGED <<tasks, completions, notifications, now>>

SubmitCommit_rechecked(p) ==
    /\ inflight[p] # NoRequest
    /\ LET r == inflight[p]
           progress == _calculate_progress(completions, tasks[r.task_id], r.task_id,
                                           r.member_id, now)
       IN completions' = IF limit_reached(progress, r.count) THEN completions
                         ELSE Append(completions, [r EXCEPT !.submitted_at = now])
    /\ inflight' = [inflight EXCEPT ![p] = NoRequest]
    /\ UNCHANGED <<tasks, notifications, now>>

\* db.add(completion); db.commit(): the row is inserted without a second check
SubmitCommit(p) ==
    /\ inflight[p] # NoRequest
    /\ completions' = Append(completions, [inflight[p] EXCEPT !.submitted_at = now])
    /\ inflight' = [inflight EXCEPT ![p] = NoRequest]
    /\ UNCHANGED <<tasks, notifications, now>>

\* the tasks list_tasks returns to a user: no status filter, archived tasks
\* left out, tasks of other teams hidden from everyone but a global admin
visible_tasks(user) ==
    {tid \in DOMAIN tasks :
        /\ ~tasks[tid].is_archived
        /\ \/ user.role = ADMIN
           \/ tasks[tid].team_id = None
           \/ (user.team_id # None /\ tasks[tid].team_id = user.team_id)}

\* the progress list_tasks attaches to each task it returns
ListTasksResult(m) ==
    [tid \in visible_tasks(Users[m]) |->
        _calculate_progress(completions, tasks[tid], tid, m, now)]

\* list_tasks only queries: nothing is added, changed or committed
list_tasks(m) ==
    /\ DOMAIN ListTasksResult(m) \subseteq DOMAIN tasks
    /\ UNCHANGED <<tasks, completions, notifications, now, inflight>>

Tick ==
    /\ now' = now + 1
    /\ UNCHANGED <<tasks, completions, notifications, inflight>>

\* ---- notification texts (translation.py) --------------------------------
TRANSLATIONS == {"cs", "en"}
DEFAULT_LANGUAGE == "cs"

\* the language translate_message ends up using
translate_language(language) ==
    IF language = NoneS \/ language \notin TRANSLATIONS THEN DEFAULT_LANGUAGE ELSE language

\* translate_message("no_reason_provided", language) (the Czech text without diacritics)
no_reason_provided(language) ==
    IF translate_language(language) = "en" THEN "No reason provided." ELSE "Nebyl uveden duvod."

\* a formatted message: the template used, its language and the values interpolated
translate_message(key, language, task_name, count, points, reason) ==
    [key |-> key, language |-> translate_language(language), task_name |-> task_name,
     count |-> count, points |-> points, reason |-> reason]

get_completion_approval_message(task_name, count, points, language) ==
    translate_message("completion_approved", language, task_name, count, points, NoneS)

get_completion_rejection_message_none_only(task_name, reason, language) ==
    translate_message("completion_rejected", language, task_name, None, None,
                      IF reason = NoneS THEN no_reason_provided(language) ELSE reason)

\* `if not reason`: a missing note and an empty one both get the placeholder
get_completion_rejection_message(task_name, reason, language) ==
    translate_message("completion_rejected", language, task_name, None, None,
                      IF reason = NoneS \/ reason = "" THEN no_reason_provided(language) ELSE reason)

get_admin_completion_approval_message(task_name, count, points, language) ==
    translate_message("admin_completion_approved", language, task_name, count, points, NoneS)

get_admin_completion_rejection_message(task_name, reason, language) ==
    translate_message("admin_completion_rejected", language, task_name, None, None,
                      IF reason = NoneS \/ reason = "" THEN no_reason_provided(language) ELSE reason)

\* ---- review and admin operations (completions.py) -----------------------
get_managed_team_ids(user) == user.managed_teams

require_admin_or_group_admin(actor) == Users[actor].role \in {ADMIN, GROUP_ADMIN}

\* CompletionReview.only_terminal_status
only_terminal_status(value) == value # PENDING

points_per_completion_task_only(variant_id, task) == task.points_per_completion

\* variant.points if the completion has a variant, else task.points_per_completion
points_per_completion(variant_id, task) ==
    IF variant_id # None THEN Variants[variant_id].points ELSE task.points_per_completion

review_points_ignoring_variant(status, c, task) ==
    IF status = APPROVED THEN task.points_per_completion * c.count ELSE 0

\* the award review_completion stores: computed on approval, zero otherwise
review_points(status, c, task) ==
    IF status = APPROVED THEN points_per_completion(c.variant_id, task) * c.count ELSE 0

\* the handler's check of the target status: the current status plays no part
review_target_allowed_from_pending(current, target) ==
    target # PENDING /\ current = PENDING

review_target_allowed(current, target) == target # PENDING

review_member_outside_scope_unless_teamless(managed_ids, member) ==
    managed_ids = {} \/ (member.team_id \notin managed_ids /\ member.team_id # None)

\* review_completion's check of the member against a group admin's teams
review_member_outside_scope(managed_ids, member) ==
    managed_ids = {} \/ member.team_id \notin managed_ids

\* the outcome of the checks of review_completion, request validation first
ReviewResult(cid, reviewer, status) ==
    IF ~require_admin_or_group_admin(reviewer) THEN "Forbidden"
    ELSE IF ~only_terminal_status(status) THEN "ValidationError"
    ELSE IF cid \notin DOMAIN completions THEN "NotFound"
    ELSE IF ~review_target_allowed(completions[cid].status, status) THEN "BadRequest"
    ELSE IF completions[cid].task_id \notin DOMAIN tasks
            \/ completions[cid].member_id \notin UserIds THEN "Conflict"
    ELSE IF Users[reviewer].role = GROUP_ADMIN
            /\ review_member_outside_scope(get_managed_team_ids(Users[reviewer]),
                                           Users[completions[cid].member_id])
         THEN "Forbidden"
    ELSE "ok"

review_completion(cid, reviewer, status, admin_note) ==
    /\ LET r == ReviewResult(cid, reviewer, status) IN
       IF r = "ok"
       THEN LET c == completions[cid]
                   task == tasks[c.task_id]
                   member == Users[c.member_id]
                   points == review_points(status, c, task)
                   message == IF status = APPROVED
                              THEN get_completion_approval_message(
                                       c.task_id, c.count, points, member.preferred_language)
                              ELSE get_completion_rejection_message(
                                       c.task_id, admin_note, member.preferred_language)
               IN /\ completions' = [completions EXCEPT ![cid] =
                         [c EXCEPT !.status = status,
                                   !.admin_note = admin_note,
                                   !.reviewer_id = reviewer,
                                   !.reviewed_at = now,
                                   !.points_awarded = points]]
                  /\ notifications' = Append(notifications,
                         [user_id |-> c.member_id, message |-> message, sender_id |-> reviewer])
          ELSE UNCHANGED <<completions, notifications>>
    /\ UNCHANGED <<tasks, now, inflight>>

create_member_outside_scope_teams_only(managed_ids, member) ==
    member.team_id \notin managed_ids /\ member.team_id # None

\* create_user_completion's check of the member against a group admin's teams:
\* a member without a team passes when the admin manages any team at all
create_member_outside_scope(managed_ids, member) ==
    managed_ids = {} \/ (member.team_id \notin managed_ids /\ member.team_id # None)

\* the outcome of the checks of create_user_completion, in the order of the code
AdminCreateResult(actor, user_id, task_id, variant_id, count, status) ==
    IF ~require_admin_or_group_admin(actor) THEN "Forbidden"
    ELSE IF ~CountValid(count) THEN "ValidationError"
    ELSE IF user_id \notin UserIds THEN "NotFound"
    ELSE IF Users[actor].role = GROUP_ADMIN
            /\ create_member_outside_scope(get_managed_team_ids(Users[actor]), Users[user_id])
         THEN "Forbidden"
    ELSE IF task_id \notin DOMAIN tasks THEN "NotFound"
    ELSE IF Users[actor].role = GROUP_ADMIN
            /\ tasks[task_id].team_id # None
            /\ tasks[task_id].team_id \notin get_managed_team_ids(Users[actor])
         THEN "Forbidden"
    ELSE IF (IF status = NoneS THEN APPROVED ELSE status) = PENDING THEN "BadRequest"
    ELSE IF variant_id # None
            /\ (variant_id \notin VariantIds \/ Variants[variant_id].task_id # task_id)
         THEN "BadRequest"
    ELSE "ok"

create_user_completion(actor, user_id, task_id, variant_id, count, status, admin_note) ==
    /\ LET r == AdminCreateResult(actor, user_id, task_id, variant_id, count, status) IN
       /\ IF r = "ok"
          THEN LET task == tasks[task_id]
                   member == Users[user_id]
                   status_value == IF status = NoneS THEN APPROVED ELSE status
                   points == IF status_value = APPROVED
                             THEN points_per_completion(variant_id, task) * count
                             ELSE 0
                   message == IF status_value = APPROVED
                              THEN get_admin_completion_approval_message(
                                       task_id, count, points, member.preferred_language)
                              ELSE get_admin_completion_rejection_message(
                                       task_id, admin_note, member.preferred_language)
               IN /\ completions' = Append(completions,
                         [member_id |-> user_id, task_id |-> task_id,
                          variant_id |-> variant_id,
                          status |-> status_value,
                          submitted_at |-> now,
                          reviewed_at |-> now,
                          reviewer_id |-> actor,
                          admin_note |-> admin_note,
                          count |-> count,
                          points_awarded |-> points])
                  /\ notifications' = Append(notifications,
                         [user_id |-> user_id, message |-> message, sender_id |-> actor])
          ELSE UNCHANGED <<completions, notifications>>
    /\ UNCHANGED <<tasks, now, inflight>>

\* CompletionAdminUpdate.count: Field(default=None, ge=1, le=999)
UpdateCountValid(count) == count = None \/ CountValid(count)

update_recomputes_on_status_only(count, status_changed) == status_changed

update_target_unchecked(status) == TRUE

\* update_user_completion refuses a payload status of pending
update_target_allowed(status) == status # PENDING

\* update_user_completion recomputes the award when the payload carries a count
\* or the status changed
update_recomputes(count, status_changed) == count # None \/ status_changed

update_points_any_status(c, new_status, new_count) ==
    IF c.task_id \in DOMAIN tasks
    THEN points_per_completion(c.variant_id, tasks[c.task_id]) * new_count
    ELSE 0

\* the award update_user_completion stores when it recomputes
update_points(c, new_status, new_count) ==
    IF new_status = APPROVED /\ c.task_id \in DOMAIN tasks
    THEN points_per_completion(c.variant_id, tasks[c.task_id]) * new_count
    ELSE 0

\* the outcome of the checks of update_user_completion; "noop" is the early
\* return of an empty payload
AdminUpdateResult(actor, user_id, cid, count, status, admin_note) ==
    IF ~require_admin_or_group_admin(actor) THEN "Forbidden"
    ELSE IF ~UpdateCountValid(count) THEN "ValidationError"
    ELSE IF cid \notin DOMAIN completions \/ completions[cid].member_id # user_id
         THEN "NotFound"
    ELSE IF Users[actor].role = GROUP_ADMIN
            /\ (get_managed_team_ids(Users[actor]) = {}
                \/ Users[completions[cid].member_id].team_id
                       \notin get_managed_team_ids(Users[actor]))
         THEN "Forbidden"
    ELSE IF count = None /\ status = NoneS /\ admin_note = NoneS THEN "noop"
    ELSE IF ~update_target_allowed(status) THEN "BadRequest"
    ELSE "ok"

update_user_completion(actor, user_id, cid, count, status, admin_note) ==
    /\ LET r == AdminUpdateResult(actor, user_id, cid, count, status, admin_note) IN
       /\ IF r = "ok"
          THEN LET c == completions[cid]
                   new_count == IF count # None THEN count ELSE c.count
                   status_changed == status # NoneS /\ c.status # status
                   new_status == IF status_changed THEN status ELSE c.status
                   recompute == update_recomputes(count, status_changed)
                   points == update_points(c, new_status, new_count)
               IN completions' = [completions EXCEPT ![cid] =
                      [c EXCEPT !.count = new_count,
                                !.status = new_status,
                                !.reviewed_at = IF status_changed THEN now ELSE @,
                                !.reviewer_id = IF status_changed THEN actor ELSE @,
                                !.admin_note = IF admin_note # NoneS THEN admin_note ELSE @,
                                !.points_awarded = IF recompute THEN points ELSE @]]
          ELSE UNCHANGED completions
    /\ UNCHANGED <<tasks, notifications, now, inflight>>

\* ---- task edits (tasks.py) ----------------------------------------------
require_admin(actor) == Users[actor].role = ADMIN

_validate_period_fields_unit_only(max_per_period, period_unit, period_count) ==
    IF max_per_period = None THEN "ok"
    ELSE IF period_unit = NoneS THEN "BadRequest"
    ELSE "ok"

_validate_period_fields(max_per_period, period_unit, period_count) ==
    IF max_per_period = None THEN "ok"
    ELSE IF period_unit = NoneS \/ period_count = None THEN "BadRequest"
    ELSE "ok"

\* patch_data.get(field, default)
PatchGet(patch_data, field, default) ==
    IF field \in DOMAIN patch_data THEN patch_data[field] ELSE default

_ensure_team_exists(team_id) ==
    IF team_id = None \/ team_id \in TeamIds THEN "ok" ELSE "NotFound"

UpdateTaskResult_limit_only(actor, tid, patch_data) ==
    LET period == IF "max_per_period" \in DOMAIN patch_data
                  THEN _validate_period_fields(
                           PatchGet(patch_data, "max_per_period", tasks[tid].max_per_period),
                           PatchGet(patch_data, "period_unit", tasks[tid].period_unit),
                           PatchGet(patch_data, "period_count", tasks[tid].period_count))
                  ELSE "ok"
    IN IF ~require_admin(actor) THEN "Forbidden"
       ELSE IF tid \notin DOMAIN tasks THEN "NotFound"
       ELSE IF period # "ok" THEN period
       ELSE IF "team_id" \in DOMAIN patch_data
            THEN _ensure_team_exists(patch_data["team_id"])
       ELSE "ok"

UpdateTaskResult(actor, tid, patch_data) ==
    LET period == IF {"max_per_period", "period_unit", "period_count"} \cap DOMAIN patch_data # {}
                  THEN _validate_period_fields(
                           PatchGet(patch_data, "max_per_period", tasks[tid].max_per_period),
                           PatchGet(patch_data, "period_unit", tasks[tid].period_unit),
                           PatchGet(patch_data, "period_count", tasks[tid].period_count))
                  ELSE "ok"
    IN IF ~require_admin(actor) THEN "Forbidden"
       ELSE IF tid \notin DOMAIN tasks THEN "NotFound"
       ELSE IF period # "ok" THEN period
       ELSE IF "team_id" \in DOMAIN patch_data
            THEN _ensure_team_exists(patch_data["team_id"])
       ELSE "ok"

update_task(actor, tid, patch_data) ==
    /\ LET r == UpdateTaskResult(actor, tid, patch_data) IN
       /\ IF r = "ok"
          THEN tasks' = [tasks EXCEPT ![tid] =
                   [field \in DOMAIN tasks[tid] |->
                       PatchGet(patch_data, field, tasks[tid][field])]]
          ELSE UNCHANGED tasks
    /\ UNCHANGED <<completions, notifications, now, inflight>>

\* the outcome of the checks of create_task
CreateTaskResult(actor, payload) ==
    IF ~require_admin(actor) THEN "Forbidden"
    ELSE IF _validate_period_fields(payload.max_per_period, payload.period_unit,
                                    payload.period_count) # "ok" THEN "BadRequest"
    ELSE _ensure_team_exists(payload.team_id)

\* the id the database gives the next task (no task is deleted here)
NextTaskId == Cardinality(DOMAIN tasks) + 1

create_task(actor, payload) ==
    /\ IF CreateTaskResult(actor, payload) = "ok"
       THEN tasks' = tasks @@ (NextTaskId :>
                [team_id |-> payload.team_id,
                 start_time |-> IF payload.start_time # None THEN payload.start_time ELSE now,
                 end_time |-> payload.end_time,
                 points_per_completion |-> payload.points_per_completion,
                 max_per_period |-> payload.max_per_period,
                 period_unit |-> payload.period_unit,
                 period_count |-> payload.period_count,
                 requires_approval |-> payload.requires_approval,
                 is_archived |-> FALSE])
       ELSE UNCHANGED tasks
    /\ UNCHANGED <<completions, notifications, now, inflight>>

\* the outcome of the checks of archive_task and of unarchive_task
ArchiveResult(actor, tid) ==
    IF ~require_admin(actor) THEN "Forbidden"
    ELSE IF tid \notin DOMAIN tasks THEN "NotFound"
    ELSE "ok"

archive_task(actor, tid) ==
    /\ IF ArchiveResult(actor, tid) = "ok"
       THEN tasks' = [tasks EXCEPT ![tid].is_archived = TRUE]
       ELSE UNCHANGED tasks
    /\ UNCHANGED <<completions, notifications, now, inflight>>

unarchive_task(actor, tid) ==
    /\ IF ArchiveResult(actor, tid) = "ok"
       THEN tasks' = [tasks EXCEPT ![tid].is_archived = FALSE]
       ELSE UNCHANGED tasks
    /\ UNCHANGED <<completions, notifications, now, inflight>>

\* ---- the weighted category leaderboard (leaderboard.py) ------------------
POINTS == "points"
COMPLETIONS == "completions"

\* the stat categories with their components in position order; weights may be
\* zero or negative; category 3 has no component; category 4 adds the points
\* and the completions of one task
Categories ==
    (1 :> <<[task_id |-> 1, metric |-> POINTS, weight |-> 1],
            [task_id |-> 2, metric |-> COMPLETIONS, weight |-> 2]>>)
 @@ (2 :> <<[task_id |-> 1, metric |-> COMPLETIONS, weight |-> 0 - 3],
            [task_id |-> 2, metric |-> POINTS, weight |-> 0],
            [task_id |-> 1, metric |-> POINTS, weight |-> 1]>>)
 @@ (3 :> <<>>)
 @@ (4 :> <<[task_id |-> 1, metric |-> POINTS, weight |-> 1],
            [task_id |-> 1, metric |-> COMPLETIONS, weight |-> 1]>>)

\* func.sum(Completion.points_awarded) over the rows with the given ids
RECURSIVE SumPoints(_, _)
SumPoints(ledger, ids) ==
    IF ids = {} THEN 0
    ELSE LET i == CHOOSE x \in ids : TRUE
         IN ledger[i].points_awarded + SumPoints(ledger, ids \ {i})

\* the sum of f over the set S
RECURSIVE SumOver(_, _)
SumOver(f, S) ==
    IF S = {} THEN 0
    ELSE LET x == CHOOSE y \in S : TRUE IN f[x] + SumOver(f, S \ {x})

completion_rows_not_rejected(member_id, task_id) ==
    {i \in DOMAIN completions :
        /\ completions[i].member_id = member_id
        /\ completions[i].task_id = task_id
        /\ completions[i].status # REJECTED}

\* the rows one group of the aggregate query sums: approved ones only
completion_rows(member_id, task_id) ==
    {i \in DOMAIN completions :
        /\ completions[i].member_id = member_id
        /\ completions[i].task_id = task_id
        /\ completions[i].status = APPROVED}

\* the members the aggregate query returns a group for
member_ids(components) ==
    {m \in UserIds : \E k \in DOMAIN components :
                        completion_rows(m, components[k].task_id) # {}}

\* the value of one component for a member
metric_value(member_id, component) ==
    LET rows == completion_rows(member_id, component.task_id) IN
    IF rows = {} THEN 0
    ELSE IF component.metric = POINTS THEN SumPoints(completions, rows)
    ELSE SumCount(completions, rows)

total_score(member_id, components) ==
    SumOver([k \in DOMAIN components |->
                components[k].weight * metric_value(member_id, components[k])],
            DOMAIN components)

raw_value(member_id, components) ==
    SumOver([k \in DOMAIN components |-> metric_value(member_id, components[k])],
            DOMAIN components)

scores_by_member_every_group(components) ==
    [m \in member_ids(components) |->
        [score |-> total_score(m, components), raw |-> raw_value(m, components)]]

\* the members that are scored: those with a nonzero raw value or score
scores_by_member(components) ==
    [m \in {u \in member_ids(components) :
                raw_value(u, components) # 0 \/ total_score(u, components) # 0} |->
        [score |-> total_score(m, components), raw |-> raw_value(m, components)]]

team_member_ids_whole_team(scores, team_id) ==
    {m \in UserIds : Users[m].team_id = team_id}

\* the scored members of a team
team_member_ids(scores, team_id) ==
    {m \in DOMAIN scores : Users[m].team_id = team_id}

team_scores(components) ==
    LET scores == scores_by_member(components) IN
    [t \in {Users[m].team_id : m \in {u \in DOMAIN scores : Users[u].team_id # None}} |->
        [score |-> SumOver([m \in DOMAIN scores |-> scores[m].score],
                           {m \in DOMAIN scores : Users[m].team_id = t}),
         total |-> SumOver([m \in DOMAIN scores |-> scores[m].raw],
                           {m \in DOMAIN scores : Users[m].team_id = t}),
         member_ids |-> team_member_ids(scores, t)]]

\* the entries before sorting, for scope "members" or "teams"
leaderboard_entries(components, scope) ==
    IF scope = "teams"
    THEN LET teams == team_scores(components) IN
         {[entity_id |-> t, score |-> teams[t].score, total_points |-> teams[t].total,
           member_count |-> Cardinality(teams[t].member_ids)] :
              t \in DOMAIN teams \cap TeamIds}
    ELSE LET scores == scores_by_member(components) IN
         {[entity_id |-> m, score |-> scores[m].score, total_points |-> scores[m].raw,
           member_count |-> None] : m \in DOMAIN scores}

\* entries.sort(key=score, reverse=True): the sort is stable and the order the
\* entries come in is the database's, so every order of equal scores can occur
sorted_entries(entries) ==
    {seq \in [1 .. Cardinality(entries) -> entries] :
        /\ \A i, j \in DOMAIN seq : i # j => seq[i] # seq[j]
        /\ \A i, j \in DOMAIN seq : i < j => seq[i].score >= seq[j].score}

StatsResult(category_id) == IF category_id \in DOMAIN Categories THEN "ok" ELSE "NotFound"

\* the lists stats_leaderboard can return: sorted, cut to limit, ranked
stats_leaderboard(category_id, scope, limit) ==
    IF StatsResult(category_id) # "ok" THEN {}
    ELSE {[i \in 1 .. (IF Len(seq) < limit THEN Len(seq) ELSE limit) |->
              [entity_id |-> seq[i].entity_id, score |-> seq[i].score, rank |-> i,
               member_count |-> seq[i].member_count,
               total_points |-> seq[i].total_points]] :
            seq \in sorted_entries(leaderboard_entries(Categories[category_id], scope))}

\* ---- the simple leaderboard and the profile ranks (leaderboard.py, users.py)

\* the approved completions of the given members
approved_rows(users) ==
    {i \in DOMAIN completions :
        completions[i].member_id \in users /\ completions[i].status = APPROVED}

member_leaderboard_rows_inner_join ==
    {[entity_id |-> u, score |-> SumPoints(completions, approved_rows({u}))] :
        u \in {v \in UserIds : approved_rows({v}) # {}}}

\* users outer-joined with their approved completions, grouped by user:
\* coalesce(sum(points_awarded), 0) for every user
member_leaderboard_rows ==
    {[entity_id |-> u, score |-> SumPoints(completions, approved_rows({u}))] :
        u \in UserIds}

\* order_by(score desc): rows of equal score come in any order
RECURSIVE ordered_rows(_)
ordered_rows(rows) ==
    IF rows = {} THEN {<<>>}
    ELSE UNION {{<<r>> \o rest : rest \in ordered_rows(rows \ {r})} :
                   r \in {x \in rows : \A y \in rows : x.score >= y.score}}

\* the lists member_leaderboard can return: rank=index + 1
member_leaderboard ==
    {[i \in DOMAIN rows |->
         [entity_id |-> rows[i].entity_id, score |-> rows[i].score, rank |-> i]] :
       rows \in ordered_rows(member_leaderboard_rows)}

\* read_current_user: the subquery member_scores, one row per member that has
\* an approved completion
member_scores ==
    [m \in {u \in UserIds : approved_rows({u}) # {}} |->
        SumPoints(completions, approved_rows({m}))]

\* read_current_user: the subquery team_scores, one row per team that has a
\* user, summing the approved completions of its users
me_team_scores ==
    [t \in {x \in TeamIds : \E u \in UserIds : Users[u].team_id = x} |->
        SumPoints(completions, approved_rows({u \in UserIds : Users[u].team_id = t}))]

higher_or_equal(scores, score) == Cardinality({k \in DOMAIN scores : scores[k] >= score})

\* count() of the rows of a score set with a score greater than the given one
higher(scores, score) == Cardinality({k \in DOMAIN scores : scores[k] > score})

member_rank(user_id) ==
    IF user_id \in DOMAIN member_scores
    THEN higher(member_scores, member_scores[user_id]) + 1
    ELSE None

team_rank(user_id) ==
    LET team_id == Users[user_id].team_id IN
    IF team_id # None /\ team_id # 0 /\ team_id \in DOMAIN me_team_scores
    THEN higher(me_team_scores, me_team_scores[team_id]) + 1
    ELSE None

\* ---- the system ---------------------------------------------------------
Admins == {4, 5}
Members == {1, 2}
AdminNotes == {NoneS, "", "late"}
PointValues == {2, 3}
Patches == {[points_per_completion |-> v] : v \in PointValues}
           \cup {[requires_approval |-> b] : b \in BOOLEAN}

InitialTasks(approval) ==
    (1 :> [team_id |-> None, start_time |-> 0, end_time |-> None,
           points_per_completion |-> 2,
           max_per_period |-> 2, period_unit |-> HOUR, period_count |-> 2,
           requires_approval |-> approval, is_archived |-> FALSE])
 @@ (2 :> [team_id |-> 1, start_time |-> 1, end_time |-> 2,
           points_per_completion |-> 3,
           max_per_period |-> None, period_unit |-> NoneS, period_count |-> None,
           requires_approval |-> TRUE, is_archived |-> FALSE])

Init ==
    /\ \E approval \in BOOLEAN : tasks = InitialTasks(approval)
    /\ completions = <<>>
    /\ notifications = <<>>
    /\ now = 0
    /\ inflight = [p \in ReqIds |-> NoRequest]

\* the requests, their inputs drawn from the given sets
Submits(members, counts) ==
    \E m \in members, tid \in TaskIds, count \in counts : Submit(m, tid, count)

SubmitBegins(members, counts) ==
    \E p \in ReqIds, m \in members, tid \in TaskIds, count \in counts :
        SubmitBegin(p, m, tid, count)

SubmitCommits == \E p \in ReqIds : SubmitCommit(p)

Reviews(reviewers, notes) ==
    \E cid \in DOMAIN completions, reviewer \in reviewers,
       status \in CompletionStatus, admin_note \in notes :
        review_completion(cid, reviewer, status, admin_note)

AdminCreates(actors, users, counts, notes) ==
    \E actor \in actors, user_id \in users, task_id \in TaskIds,
       variant_id \in {None} \cup VariantIds, count \in counts,
       status \in {NoneS} \cup CompletionStatus, admin_note \in notes :
        create_user_completion(actor, user_id, task_id, variant_id, count, status, admin_note)

AdminUpdates(actors, users, counts, notes) ==
    \E actor \in actors, user_id \in users, cid \in DOMAIN completions,
       count \in {None} \cup counts,
       status \in {NoneS} \cup CompletionStatus, admin_note \in notes :
        update_user_completion(actor, user_id, cid, count, status, admin_note)

UpdateTasks(actors, patches) ==
    \E actor \in actors, tid \in TaskIds, patch_data \in patches :
        update_task(actor, tid, patch_data)

\* the part of the state space explored: the ledger lifecycle
Bounded ==
    /\ Len(completions) <= MaxCompletions
    /\ Len(notifications) <= MaxNotifications
    /\ now <= MaxReviewTime

Next ==
    \/ Tick /\ Bounded'
    \/ Submits({1}, 1 .. MaxCount) /\ Bounded'
    \/ Reviews({4}, {NoneS}) /\ Bounded'
    \/ AdminCreates({4}, {1}, 1 .. MaxCount, {NoneS}) /\ Bounded'
    \/ AdminUpdates({4}, {1}, 1 .. MaxCount, {NoneS}) /\ Bounded'
    \/ UpdateTasks({4}, Patches) /\ Bounded'

Spec == Init /\ [][Next]_vars

\* reviews in detail: every reviewer, member and note, no other admin edits
NextReview ==
    \/ Tick /\ Bounded'
    \/ Submits(Members, 1 .. MaxCount) /\ Bounded'
    \/ AdminCreates({4}, {1}, 1 .. MaxCount, {NoneS}) /\ Bounded'
    \/ Reviews(Admins, AdminNotes) /\ Bounded'

SpecReview == Init /\ [][NextReview]_vars

\* the admin's corrections of a ledger row, with the notes they may carry
UpdateNotes == {NoneS, "fix"}

NextUpdate ==
    \/ Tick /\ Bounded'
    \/ Submits({1}, 1 .. MaxCount) /\ Bounded'
    \/ AdminCreates({4}, {1}, 1 .. MaxCount, {NoneS}) /\ Bounded'
    \/ AdminUpdates({4}, {1}, 1 .. MaxCount, UpdateNotes) /\ Bounded'
    \/ UpdateTasks({4}, Patches) /\ Bounded'

SpecUpdate == Init /\ [][NextUpdate]_vars

\* the part of the state space explored: submissions over several windows
WindowBounded ==
    /\ Len(completions) + Cardinality({p \in ReqIds : inflight[p] # NoRequest})
           <= MaxSubmissions
    /\ now <= MaxTime

\* submissions only, each handled in one step
NextAtomic ==
    \/ Tick /\ WindowBounded'
    \/ Submits(Submitters, Counts) /\ WindowBounded'

SpecAtomic == Init /\ [][NextAtomic]_vars

\* submissions and reads of the task list
ListTasks(members) == \E m \in members : list_tasks(m)

NextRead ==
    \/ Tick /\ WindowBounded'
    \/ Submits({1}, 1 .. MaxCount) /\ WindowBounded'
    \/ ListTasks(Submitters) /\ WindowBounded'

SpecRead == Init /\ [][NextRead]_vars

\* submissions only, the check and the commit of a request being separate steps
NextRace ==
    \/ Tick /\ WindowBounded'
    \/ SubmitBegins(Submitters, Counts) /\ WindowBounded'
    \/ SubmitCommits /\ WindowBounded'

SpecRace == Init /\ [][NextRace]_vars

\* submissions, archiving and unarchiving: task 3 does not exist, user 4 is a
\* global admin submitting like a member
MaxArchiveRows == 2
AnyTaskIds == {1, 2, 3}
AnySubmitters == {1, 2, 4}

SubmitsTo(members, tids, counts) ==
    \E m \in members, tid \in tids, count \in counts : Submit(m, tid, count)

ArchiveTasks(actors, tids) == \E actor \in actors, tid \in tids : archive_task(actor, tid)

UnarchiveTasks(actors, tids) ==
    \E actor \in actors, tid \in tids : unarchive_task(actor, tid)

ArchiveBounded == Len(completions) <= MaxArchiveRows /\ now <= MaxTime

NextArchive ==
    \/ Tick /\ ArchiveBounded'
    \/ SubmitsTo(AnySubmitters, AnyTaskIds, 1 .. MaxCount) /\ ArchiveBounded'
    \/ ArchiveTasks(Admins, AnyTaskIds) /\ ArchiveBounded'
    \/ UnarchiveTasks(Admins, AnyTaskIds) /\ ArchiveBounded'

SpecArchive == Init /\ [][NextArchive]_vars

\* the team scope of group admins: every kind of actor, members of both teams
\* and of none, tasks moved between the teams
AnyAdmins == {4, 5, 6}
AnyMembers == {1, 2, 3}
TeamPatches == {[team_id |-> t] : t \in {None} \cup TeamIds}

NextScope ==
    \/ AdminCreates(AnyAdmins, AnyMembers, {1}, {NoneS}) /\ Bounded'
    \/ Reviews(AnyAdmins, {NoneS}) /\ Bounded'
    \/ UpdateTasks({4}, TeamPatches) /\ Bounded'

SpecScope == Init /\ [][NextScope]_vars

\* task administration: creating tasks and editing their recurrence fields
MaxTasks == 3
NoPatch == [field \in {} |-> None]
MaxPerPeriodValues == {None, 1}
PeriodUnitValues == {NoneS, HOUR}
PeriodCountValues == {None, 1}

\* the payloads of TaskUpdate that name some of the three recurrence fields
PeriodPatches ==
    {p \in {(IF m[1] THEN "max_per_period" :> m[2] ELSE NoPatch)
             @@ (IF u[1] THEN "period_unit" :> u[2] ELSE NoPatch)
             @@ (IF c[1] THEN "period_count" :> c[2] ELSE NoPatch) :
                m \in BOOLEAN \X MaxPerPeriodValues,
                u \in BOOLEAN \X PeriodUnitValues,
                c \in BOOLEAN \X PeriodCountValues} : DOMAIN p # {}}

\* the payloads of TaskCreate
TaskPayloads ==
    {[team_id |-> t, start_time |-> None, end_time |-> None, points_per_completion |-> 2,
      max_per_period |-> m, period_unit |-> u, period_count |-> c,
      requires_approval |-> FALSE] :
        t \in {None, 1, 3}, m \in MaxPerPeriodValues,
        u \in PeriodUnitValues, c \in PeriodCountValues}

CreateTasks(actors, payloads) ==
    \E actor \in actors, payload \in payloads : create_task(actor, payload)

TasksBounded == Cardinality(DOMAIN tasks) <= MaxTasks

NextTasks ==
    \/ CreateTasks(Admins, TaskPayloads) /\ TasksBounded'
    \/ UpdateTasks(Admins, PeriodPatches) /\ TasksBounded'

SpecTasks == Init /\ [][NextTasks]_vars

\* the window calculator over tasks whose start and recurrence fields are
\* edited; the calculator is probed at the times 0 .. MaxProbe
MaxProbe == 80
StartValues == {0, 1, 5}
WindowPatches ==
    {[start_time |-> v] : v \in StartValues}
    \cup {[period_count |-> v] : v \in 1 .. 3}
    \cup {[period_unit |-> v] : v \in {HOUR, DAY}}
    \cup {[max_per_period |-> v] : v \in {None, 1}}

WindowTimeBounded == now <= MaxTime

NextWindow ==
    \/ Tick /\ WindowTimeBounded'
    \/ UpdateTasks({4}, WindowPatches) /\ WindowTimeBounded'

SpecWindow == Init /\ [][NextWindow]_vars

\* submissions and their reviews over several windows
MaxUsageRows == 3
MaxUsageReviews == 1

UsageBounded ==
    /\ Len(completions) <= MaxUsageRows
    /\ Len(notifications) <= MaxUsageReviews
    /\ now <= MaxTime

NextUsage ==
    \/ Tick /\ UsageBounded'
    \/ Submits(Submitters, 1 .. MaxCount) /\ UsageBounded'
    \/ Reviews({4}, {NoneS}) /\ UsageBounded'

SpecUsage == Init /\ [][NextUsage]_vars

\* the ledger behind the leaderboards: rows of two members of team 1 (users 1
\* and 5) and of a member without a team (user 3), approved, rejected or pending
MaxBoardRows == 3
BoardMembers == {1, 3, 5}
CategoryIds == {1, 2, 3, 4}
Scopes == {"members", "teams"}
Limits == {1, 3}

\* AdminCreate without a variant or a note
AdminCreatesPlain(actors, users, counts) ==
    \E actor \in actors, user_id \in users, task_id \in TaskIds, count \in counts,
       status \in {APPROVED, REJECTED} :
        create_user_completion(actor, user_id, task_id, None, count, status, NoneS)

BoardBounded == Len(completions) <= MaxBoardRows

NextBoard ==
    \/ Submits({1}, {1}) /\ BoardBounded'
    \/ AdminCreatesPlain({4}, BoardMembers, 1 .. MaxCount) /\ BoardBounded'

SpecBoard == Init /\ [][NextBoard]_vars

\* the ledger behind the simple leaderboard and the profile: single completions
\* entered by the admin, approved or rejected
NextRank == AdminCreatesPlain({4}, BoardMembers, {1}) /\ BoardBounded'

SpecRank == Init /\ [][NextRank]_vars

\* a member's submissions next to an admin's entries and corrections for the
\* same member, on tasks that may be archived
MaxOverrideRows == 2

OverrideBounded ==
    /\ Len(completions) <= MaxOverrideRows
    /\ Len(notifications) <= MaxNotifications
    /\ now <= MaxReviewTime

NextOverride ==
    \/ Tick /\ OverrideBounded'
    \/ Submits({1}, 1 .. MaxCount) /\ OverrideBounded'
    \/ AdminCreatesPlain({4}, {1}, 1 .. MaxCount) /\ OverrideBounded'
    \/ AdminUpdates({4}, {1}, 1 .. MaxCount, {NoneS}) /\ OverrideBounded'
    \/ ArchiveTasks({4}, TaskIds) /\ OverrideBounded'

SpecOverride == Init /\ [][NextOverride]_vars

\* a member's submissions next to an admin's entries for the same member
MaxQuotaRows == 3

QuotaBounded ==
    /\ Len(completions) <= MaxQuotaRows
    /\ Len(notifications) <= MaxNotifications
    /\ now <= MaxReviewTime

NextQuota ==
    \/ Tick /\ QuotaBounded'
    \/ Submits({1}, 1 .. MaxCount) /\ QuotaBounded'
    \/ AdminCreatesPlain({4}, {1}, 1 .. MaxCount) /\ QuotaBounded'

SpecQuota == Init /\ [][NextQuota]_vars

\* the ledger behind the category leaderboard when the rates of the tasks are
\* edited, to zero and to a penalty, between the admin's entries
RatePatches == {[points_per_completion |-> v] : v \in {0 - 1, 0}}
PenaltyMembers == {1, 3}

PenaltyBounded == Len(completions) <= MaxCompletions + 1

NextPenalty ==
    \/ AdminCreatesPlain({4}, PenaltyMembers, 1 .. MaxCount) /\ PenaltyBounded'
    \/ UpdateTasks({4}, RatePatches) /\ PenaltyBounded'

SpecPenalty == Init /\ [][NextPenalty]_vars

\* a member's submissions reviewed more than once
NextRereview ==
    \/ Tick /\ OverrideBounded'
    \/ Submits({1}, 1 .. MaxCount) /\ OverrideBounded'
    \/ Reviews({4}, {NoneS}) /\ OverrideBounded'

SpecRereview == Init /\ [][NextRereview]_vars

\* ---- properties ---------------------------------------------------------

\* the rate of a ledger row under the task table ts: its variant's points if it
\* has a variant, else its task's points_per_completion
RateOf(c, ts) ==
    IF c.variant_id # None THEN Variants[c.variant_id].points
    ELSE ts[c.task_id].points_per_completion

\* the award a row should carry under the task table ts
AwardOf(c, ts) == IF c.status = APPROVED THEN RateOf(c, ts) * c.count ELSE 0

Approved(i) == completions[i].status = APPROVED

\* C1 as stated: in every reachable state a completion that is not approved has
\* points_awarded = 0 and an approved one has points_awarded = current rate * count.
C1_AwardAlwaysCurrent ==
    \A i \in DOMAIN completions : completions[i].points_awarded = AwardOf(completions[i], tasks)

NonApprovedZero ==
    \A i \in DOMAIN completions : ~Approved(i) => completions[i].points_awarded = 0

\* a step leaves status, count and points_awarded of row i alone, or leaves the
\* row with the award computed from the rate in force at that step
AwardStep ==
    \A i \in DOMAIN completions' :
        \/ /\ i \in DOMAIN completions
           /\ completions'[i].status = completions[i].status
           /\ completions'[i].count = completions[i].count
           /\ completions'[i].points_awarded = completions[i].points_awarded
        \/ completions'[i].points_awarded = AwardOf(completions'[i], tasks)

\* C1 amended: a completion that is not approved always has points_awarded = 0;
\* every operation that creates a completion or changes its status, count or
\* points_awarded leaves points_awarded = rate * count (rate taken at that
\* operation) when the completion is approved; update_task changes no completion.
C1_AwardComputedAtOperation ==
    /\ []NonApprovedZero
    /\ [][AwardStep]_vars
    /\ [][tasks' # tasks => completions' = completions]_vars

\* an approved completion whose task's rate was edited after the award
C1_StaleAward ==
    \E i \in DOMAIN completions :
        /\ Approved(i)
        /\ completions[i].variant_id = None
        /\ completions[i].points_awarded = 2 * completions[i].count
        /\ tasks[completions[i].task_id].points_per_completion = 3

\* ---- submissions and the recurrence limit -------------------------------
Limited(tid) == tid \in DOMAIN tasks /\ tasks[tid].max_per_period # None

Remaining(m, tid) == _calculate_progress(completions, tasks[tid], tid, m, now).remaining

\* the checks of submit_completion that come before the limit check all pass
OtherChecksPass(m, tid, count) ==
    /\ CountValid(count)
    /\ tid \in DOMAIN tasks
    /\ _assert_task_access(tasks[tid], Users[m]) = "ok"
    /\ _assert_task_window(tasks[tid], now) = "ok"

\* the rows of member m for task tid, not rejected, submitted in [from, to)
RowsIn(m, tid, from, to) ==
    {i \in DOMAIN completions :
        /\ completions[i].member_id = m
        /\ completions[i].task_id = tid
        /\ completions[i].status # REJECTED
        /\ completions[i].submitted_at >= from
        /\ completions[i].submitted_at < to}

Usage(m, tid, from, to) == SumCount(completions, RowsIn(m, tid, from, to))

\* C2: for a limited task and a request that passes the earlier checks, Submit
\* with count = remaining succeeds and appends one row with that count; Submit
\* with count > remaining fails with BadRequest and appends nothing.
C2_LimitBoundary ==
    /\ [](\A m \in Submitters, tid \in TaskIds, count \in Counts :
             Limited(tid) /\ OtherChecksPass(m, tid, count) =>
                 /\ count = Remaining(m, tid) => SubmitResult(m, tid, count) = "ok"
                 /\ count > Remaining(m, tid) => SubmitResult(m, tid, count) = "BadRequest")
    /\ [][\A m \in Submitters, tid \in TaskIds, count \in Counts :
             Limited(tid) /\ OtherChecksPass(m, tid, count) /\ Submit(m, tid, count) =>
                 IF count > Remaining(m, tid)
                 THEN completions' = completions
                 ELSE /\ Len(completions') = Len(completions) + 1
                      /\ SubSeq(completions', 1, Len(completions)) = completions
                      /\ completions'[Len(completions')].member_id = m
                      /\ completions'[Len(completions')].task_id = tid
                      /\ completions'[Len(completions')].count = count]_vars

\* a member has used the allowance up with a second submission of exactly the
\* remaining count, so that any further count exceeds what remains
C2_AllowanceUsedUp ==
    \E m \in Submitters, tid \in TaskIds :
        /\ Limited(tid)
        /\ OtherChecksPass(m, tid, 1)
        /\ Remaining(m, tid) = 0
        /\ \E i, j \in DOMAIN completions :
              /\ i < j
              /\ completions[i].member_id = m /\ completions[j].member_id = m
              /\ completions[i].task_id = tid /\ completions[j].task_id = tid
              /\ completions[i].count = 1 /\ completions[j].count = 1
              /\ completions[i].submitted_at = completions[j].submitted_at

\* C3: a request that passed the checks is committed whatever the ledger holds
\* by then, so two requests that both passed before either committed both land.
C3_CommitWithoutRecheck ==
    [][\A p \in ReqIds : SubmitCommit(p) =>
          /\ Len(completions') = Len(completions) + 1
          /\ completions'[Len(completions')].count = inflight[p].count
          /\ completions'[Len(completions')].member_id = inflight[p].member_id
          /\ completions'[Len(completions')].task_id = inflight[p].task_id]_vars

\* two committed requests of one member for one limited task, in one window,
\* whose counts together exceed max_per_period
C3_RaceOverLimit ==
    /\ Len(completions) = 2
    /\ \A p \in ReqIds : inflight[p] = NoRequest
    /\ \E m \in Submitters, tid \in TaskIds :
          /\ Limited(tid)
          /\ LET stats == _current_window_stats(completions, tasks[tid], tid, m, now)
             IN /\ RowsIn(m, tid, stats[2], stats[3]) = {1, 2}
                /\ completions[1].count + completions[2].count > tasks[tid].max_per_period

\* the windows of a limited task that the clock can reach
WindowStarts(tid) ==
    {tasks[tid].start_time + k * _window_delta(tasks[tid]) : k \in 0 .. MaxTime}

\* C4: with atomic submissions only and no task edits, no member's non-rejected
\* counts within one window of a limited task exceed max_per_period.
C4_LimitRespected ==
    \A m \in Submitters, tid \in TaskIds :
        Limited(tid) =>
            \A from \in WindowStarts(tid) :
                Usage(m, tid, from, from + _window_delta(tasks[tid]))
                    <= tasks[tid].max_per_period

\* a full window behind the current one, and a submission in the current one
C4_FullWindowThenNext ==
    \E m \in Submitters, tid \in TaskIds :
        /\ Limited(tid)
        /\ \E from \in WindowStarts(tid) :
              /\ Usage(m, tid, from, from + _window_delta(tasks[tid]))
                     = tasks[tid].max_per_period
              /\ from + _window_delta(tasks[tid]) <= now
              /\ Usage(m, tid, from + _window_delta(tasks[tid]),
                       from + 2 * _window_delta(tasks[tid])) > 0

\* ---- the review state machine -------------------------------------------
Terminal(st) == st \in {APPROVED, REJECTED}

\* C5 as stated: once a completion is approved or rejected, no operation
\* changes its status again.
C5_TerminalStatusFrozen ==
    [][\A i \in DOMAIN completions :
          Terminal(completions[i].status) =>
              completions'[i].status = completions[i].status]_vars

\* C5 amended: a completion that is approved or rejected stays approved or
\* rejected (it may still be switched between the two by Review or
\* AdminUpdate), and its member, task, variant, submission time and position
\* in the ledger never change.
C5_TerminalStaysTerminal ==
    [][\A i \in DOMAIN completions :
          /\ i \in DOMAIN completions'
          /\ completions'[i].member_id = completions[i].member_id
          /\ completions'[i].task_id = completions[i].task_id
          /\ completions'[i].variant_id = completions[i].variant_id
          /\ completions'[i].submitted_at = completions[i].submitted_at
          /\ Terminal(completions[i].status) => Terminal(completions'[i].status)]_vars

\* a completion reviewed twice: rejected first, approved afterwards
C5_ReReviewed ==
    /\ Len(completions) = 1
    /\ Len(notifications) = 2
    /\ notifications[1].message.key = "completion_rejected"
    /\ notifications[2].message.key = "completion_approved"
    /\ completions[1].status = APPROVED

\* C6: Review is accepted whatever the completion's current status is when
\* the target is approved or rejected, and then sets the status to the target;
\* Review with target pending fails with BadRequest and changes nothing.
C6_ReviewPendingIsBadRequest ==
    /\ [](\A cid \in DOMAIN completions, st \in CompletionStatus :
            ReviewResult(cid, 4, st) = IF st = PENDING THEN "BadRequest" ELSE "ok")
    /\ [][\A cid \in DOMAIN completions, st \in CompletionStatus, note \in AdminNotes :
            review_completion(cid, 4, st, note) =>
                IF st = PENDING THEN completions' = completions
                ELSE completions'[cid].status = st]_vars

\* C7: a completion that has left pending never becomes pending again, and
\* Review, AdminCreate and AdminUpdate each answer a requested status of
\* pending with BadRequest.
C7_PendingRefusedAsBadRequest ==
    /\ [][\A i \in DOMAIN completions :
            completions[i].status # PENDING => completions'[i].status # PENDING]_vars
    /\ [](\A tid \in DOMAIN tasks, count \in 1 .. MaxCount :
            AdminCreateResult(4, 1, tid, None, count, PENDING) = "BadRequest")
    /\ [](\A cid \in DOMAIN completions :
            /\ AdminUpdateResult(4, completions[cid].member_id, cid, None, PENDING, NoneS)
                   = "BadRequest"
            /\ ReviewResult(cid, 4, PENDING) = "BadRequest")

\* C8: a successful Review to approved stores (variant points if the row has a
\* variant, else the task's points_per_completion at review time) * count, one
\* to rejected stores 0; both stamp reviewer_id and reviewed_at and leave
\* count, member, task and submitted_at alone.
C8_ReviewAwardAndStamp ==
    [][\A cid \in DOMAIN completions, rv \in Admins,
          st \in {APPROVED, REJECTED}, note \in AdminNotes :
          (ReviewResult(cid, rv, st) = "ok" /\ review_completion(cid, rv, st, note)) =>
              LET c == completions[cid]
                  d == completions'[cid]
              IN /\ d.status = st
                 /\ d.points_awarded = (IF st = APPROVED THEN RateOf(c, tasks) * c.count ELSE 0)
                 /\ d.reviewer_id = rv
                 /\ d.reviewed_at = now
                 /\ d.count = c.count
                 /\ d.member_id = c.member_id
                 /\ d.task_id = c.task_id
                 /\ d.submitted_at = c.submitted_at]_vars

\* a row with a variant, approved by a review later than its submission
C8_VariantRowApprovedLater ==
    /\ Len(completions) = 1
    /\ completions[1].variant_id = 1
    /\ completions[1].status = APPROVED
    /\ completions[1].count = 2
    /\ completions[1].points_awarded = 10
    /\ completions[1].reviewed_at > completions[1].submitted_at
    /\ notifications[Len(notifications)].message.key = "completion_approved"

\* the notification a review is to send: the outcome, in the member's language
\* (Czech when that language has no translation), with the note as reason or
\* the placeholder when there is no note
ExpectedLanguage(member) ==
    IF Users[member].preferred_language = "en" THEN "en" ELSE "cs"

ExpectedReason(note, member) ==
    IF note \in {NoneS, ""}
    THEN (IF ExpectedLanguage(member) = "en" THEN "No reason provided."
          ELSE "Nebyl uveden duvod.")
    ELSE note

ExpectedReviewNotice(c, d, rv, st, note) ==
    [user_id |-> c.member_id, sender_id |-> rv,
     message |-> IF st = APPROVED
                 THEN [key |-> "completion_approved", language |-> ExpectedLanguage(c.member_id),
                       task_name |-> c.task_id, count |-> c.count,
                       points |-> d.points_awarded, reason |-> NoneS]
                 ELSE [key |-> "completion_rejected", language |-> ExpectedLanguage(c.member_id),
                       task_name |-> c.task_id, count |-> None, points |-> None,
                       reason |-> ExpectedReason(note, c.member_id)]]

ReviewKeys == {"completion_approved", "completion_rejected"}

\* C9: a successful Review appends exactly one notification, to the member and
\* from the reviewer, in the same step as the status and points change; a
\* failed Review appends nothing and changes nothing; no step changes an
\* existing row's status without appending a notification, and a review
\* notification is appended only together with the row carrying its outcome.
\* A rejection carries the note as reason, or the localized placeholder when
\* the note is missing or empty.
C9_ReviewNotifiesAtomically ==
    /\ [][\A cid \in DOMAIN completions, rv \in Admins,
            st \in CompletionStatus, note \in AdminNotes :
            review_completion(cid, rv, st, note) =>
                IF ReviewResult(cid, rv, st) = "ok"
                THEN /\ completions'[cid].status = st
                     /\ notifications' = Append(notifications,
                            ExpectedReviewNotice(completions[cid], completions'[cid],
                                                 rv, st, note))
                ELSE /\ notifications' = notifications
                     /\ completions' = completions]_vars
    /\ [][(\E i \in DOMAIN completions : completions'[i].status # completions[i].status)
            => Len(notifications') = Len(notifications) + 1]_vars
    /\ [][(/\ Len(notifications') = Len(notifications) + 1
           /\ notifications'[Len(notifications')].message.key \in ReviewKeys)
            => \E i \in DOMAIN completions :
                  LET n == notifications'[Len(notifications')]
                      d == completions'[i]
                  IN /\ d.member_id = n.user_id
                     /\ d.reviewer_id = n.sender_id
                     /\ d.reviewed_at = now
                     /\ d.status = (IF n.message.key = "completion_approved"
                                    THEN APPROVED ELSE REJECTED)]_vars

\* a rejection reviewed with an empty note, notified with the placeholder
C9_RejectedWithEmptyNote ==
    /\ Len(completions) = 1
    /\ completions[1].status = REJECTED
    /\ completions[1].admin_note = ""
    /\ Len(notifications) >= 1
    /\ notifications[Len(notifications)].message.key = "completion_rejected"
    /\ notifications[Len(notifications)].message.reason = "No reason provided."
    /\ notifications[Len(notifications)].sender_id = 5

\* C10: when AdminUpdate changes the count or the status of a completion, the
\* stored award becomes rate * new count if the resulting status is approved
\* and 0 otherwise; an update that names no status leaves the status alone,
\* and the count becomes the one given (or stays).  Steps that leave the
\* ledger as it was, or touch what an update never touches, are skipped.
C10_UpdateRecomputesAward ==
    [][(completions' # completions /\ UNCHANGED <<tasks, notifications, now>>) =>
       \A cid \in DOMAIN completions, count \in {None} \cup (1 .. MaxCount),
          st \in {NoneS, APPROVED, REJECTED}, note \in UpdateNotes :
          (/\ AdminUpdateResult(4, completions[cid].member_id, cid, count, st, note) = "ok"
           /\ update_user_completion(4, completions[cid].member_id, cid, count, st, note)) =>
              LET c == completions[cid]
                  d == completions'[cid]
              IN /\ d.count = (IF count = None THEN c.count ELSE count)
                 /\ d.status = (IF st = NoneS THEN c.status ELSE st)
                 /\ (d.count # c.count \/ d.status # c.status) =>
                        d.points_awarded =
                            (IF d.status = APPROVED THEN RateOf(d, tasks) * d.count ELSE 0)]_vars

\* a self-submitted, auto-approved row whose count was corrected to 2 after
\* the task's rate was raised to 3: the award follows the new count and rate
C10_CountCorrected ==
    /\ Len(completions) = 1
    /\ completions[1].status = APPROVED
    /\ completions[1].reviewer_id = None
    /\ completions[1].admin_note = "fix"
    /\ completions[1].count = 2
    /\ tasks[1].points_per_completion = 3
    /\ completions[1].task_id = 1
    /\ completions[1].points_awarded = 6

\* ---- submission ---------------------------------------------------------

\* C11: a successful Submit appends exactly one completion for (member, task)
\* with the requested count; it is pending if the task requires approval and
\* approved otherwise; an approved one carries points_per_completion * count
\* and reviewed_at, a pending one 0 points and neither reviewed_at nor
\* reviewer_id.
C11_SubmitAppendsOneRow ==
    [][\A m \in Submitters, tid \in TaskIds, count \in Counts :
          (SubmitResult(m, tid, count) = "ok" /\ Submit(m, tid, count)) =>
              /\ Len(completions') = Len(completions) + 1
              /\ SubSeq(completions', 1, Len(completions)) = completions
              /\ LET d == completions'[Len(completions')]
                     approval == tasks[tid].requires_approval
                 IN /\ d.member_id = m
                    /\ d.task_id = tid
                    /\ d.count = count
                    /\ d.status = (IF approval THEN PENDING ELSE APPROVED)
                    /\ d.submitted_at = now
                    /\ ~approval => /\ d.points_awarded
                                         = tasks[tid].points_per_completion * count
                                    /\ d.reviewed_at = now
                    /\ approval => /\ d.points_awarded = 0
                                   /\ d.reviewed_at = None
                                   /\ d.reviewer_id = None]_vars

\* the ledger holds a submission awaiting review and one approved on the spot
C11_PendingAndApprovedRows ==
    \E i, j \in DOMAIN completions :
        /\ completions[i].status = PENDING
        /\ completions[i].points_awarded = 0
        /\ completions[i].reviewed_at = None
        /\ completions[j].status = APPROVED
        /\ completions[j].count = 2
        /\ completions[j].points_awarded = 4
        /\ completions[j].reviewed_at = completions[j].submitted_at

\* the answer Submit is to give: the first of the listed failures that applies
ExpectedSubmitResult(m, tid, count) ==
    IF tid \notin DOMAIN tasks THEN "NotFound"
    ELSE IF /\ tasks[tid].team_id # None
            /\ Users[m].role # ADMIN
            /\ Users[m].team_id # tasks[tid].team_id THEN "Forbidden"
    ELSE IF tasks[tid].is_archived THEN "Gone"
    ELSE IF \/ (tasks[tid].start_time # None /\ now < tasks[tid].start_time)
            \/ (tasks[tid].end_time # None /\ now > tasks[tid].end_time)
            \/ (Limited(tid) /\ Remaining(m, tid) < count) THEN "BadRequest"
    ELSE "ok"

\* C12: Submit fails with NotFound for an unknown task, Forbidden for a
\* team-bound task of another team (unless the submitter is a global admin),
\* Gone for an archived task, BadRequest for a task not started, ended or
\* without enough allowance left, the earlier failure winning when several
\* apply; a failed Submit leaves ledger, tasks and notifications as they were.
C12_SubmitFailures ==
    /\ [](\A m \in AnySubmitters, tid \in AnyTaskIds, count \in 1 .. MaxCount :
            SubmitResult(m, tid, count) = ExpectedSubmitResult(m, tid, count))
    /\ [][\A m \in AnySubmitters, tid \in AnyTaskIds, count \in 1 .. MaxCount :
            (ExpectedSubmitResult(m, tid, count) # "ok" /\ Submit(m, tid, count)) =>
                UNCHANGED <<completions, tasks, notifications>>]_vars

\* a state with a non-empty ledger in which a Submit meets each kind of failure
C12_EveryFailureKind ==
    /\ Len(completions) >= 1
    /\ SubmitResult(1, 3, 1) = "NotFound"
    /\ SubmitResult(2, 2, 1) = "Forbidden"
    /\ SubmitResult(1, 1, 1) = "Gone"
    /\ SubmitResult(1, 2, 1) = "BadRequest"
    /\ SubmitResult(4, 2, 1) = "BadRequest"

\* member m is within the team scope of task tid
HasAccess(m, tid) ==
    \/ tasks[tid].team_id = None
    \/ Users[m].role = ADMIN
    \/ Users[m].team_id = tasks[tid].team_id

\* C13: while a task is archived every Submit for it by a member with access
\* fails with Gone and appends nothing; archiving and unarchiving set only the
\* task's archive flag and leave the ledger alone; for a task that is not
\* archived (again) Submit is decided by the usual checks, never Gone.
C13_ArchivedRejectsSubmit ==
    /\ [](\A tid \in DOMAIN tasks, m \in AnySubmitters, count \in 1 .. MaxCount :
            IF tasks[tid].is_archived
            THEN HasAccess(m, tid) => SubmitResult(m, tid, count) = "Gone"
            ELSE /\ SubmitResult(m, tid, count) # "Gone"
                 /\ SubmitResult(m, tid, count) = ExpectedSubmitResult(m, tid, count))
    /\ [][\A tid \in DOMAIN tasks, m \in AnySubmitters, count \in 1 .. MaxCount :
            (tasks[tid].is_archived /\ HasAccess(m, tid) /\ Submit(m, tid, count)) =>
                completions' = completions]_vars
    /\ [][\A tid \in DOMAIN tasks :
            /\ archive_task(4, tid) =>
                  /\ tasks' = [tasks EXCEPT ![tid].is_archived = TRUE]
                  /\ completions' = completions
            /\ unarchive_task(4, tid) =>
                  /\ tasks' = [tasks EXCEPT ![tid].is_archived = FALSE]
                  /\ completions' = completions]_vars
    /\ [][tasks' # tasks => completions' = completions]_vars

\* task 1 is archived with its earlier completion still in the ledger, and a
\* member with access is refused
C13_ArchivedWithHistory ==
    /\ tasks[1].is_archived
    /\ \E i \in DOMAIN completions : completions[i].task_id = 1
    /\ HasAccess(1, 1)
    /\ SubmitResult(1, 1, 1) = "Gone"

\* ---- completions entered by an admin ------------------------------------

\* the task exists and the variant, if one is given, is a variant of it
CreateInputsValid(tid, variant_id) ==
    /\ tid \in DOMAIN tasks
    /\ variant_id # None => (variant_id \in VariantIds /\ Variants[variant_id].task_id = tid)

\* C14: AdminCreate by a global admin with status omitted or approved appends
\* one approved completion with (variant points if a variant is given, else
\* the task's points_per_completion) * count, reviewer_id = the admin and
\* reviewed_at = submitted_at, and adds one notification to the member; with
\* status rejected it appends a rejected completion with 0 points and a
\* notification; with status pending it fails with BadRequest and adds nothing.
C14_AdminCreateRow ==
    /\ [](\A tid \in TaskIds, v \in {None} \cup VariantIds, count \in 1 .. MaxCount :
            CreateInputsValid(tid, v) =>
                AdminCreateResult(4, 1, tid, v, count, PENDING) = "BadRequest")
    /\ [][\A tid \in TaskIds, v \in {None} \cup VariantIds, count \in 1 .. MaxCount,
            st \in {NoneS} \cup CompletionStatus :
            (CreateInputsValid(tid, v)
                /\ create_user_completion(4, 1, tid, v, count, st, NoneS)) =>
                IF st = PENDING
                THEN UNCHANGED <<completions, notifications>>
                ELSE /\ Len(completions') = Len(completions) + 1
                     /\ SubSeq(completions', 1, Len(completions)) = completions
                     /\ Len(notifications') = Len(notifications) + 1
                     /\ SubSeq(notifications', 1, Len(notifications)) = notifications
                     /\ LET d == completions'[Len(completions')]
                            n == notifications'[Len(notifications')]
                            rate == IF v # None THEN Variants[v].points
                                    ELSE tasks[tid].points_per_completion
                        IN /\ d.member_id = 1 /\ d.task_id = tid
                           /\ d.variant_id = v /\ d.count = count
                           /\ d.status = (IF st = REJECTED THEN REJECTED ELSE APPROVED)
                           /\ d.points_awarded = (IF st = REJECTED THEN 0 ELSE rate * count)
                           /\ d.reviewer_id = 4
                           /\ d.submitted_at = now
                           /\ d.reviewed_at = d.submitted_at
                           /\ n.user_id = 1 /\ n.sender_id = 4
                           /\ n.message.key = (IF st = REJECTED
                                               THEN "admin_completion_rejected"
                                               ELSE "admin_completion_approved")]_vars

\* an approved completion with a variant entered by the admin, and its notice
C14_AdminCreatedVariantRow ==
    /\ Len(completions) = 1
    /\ completions[1].variant_id = 1
    /\ completions[1].status = APPROVED
    /\ completions[1].count = 2
    /\ completions[1].points_awarded = 10
    /\ completions[1].reviewer_id = 4
    /\ completions[1].reviewed_at = completions[1].submitted_at
    /\ Len(notifications) = 1
    /\ notifications[1].user_id = 1
    /\ notifications[1].sender_id = 4
    /\ notifications[1].message.key = "admin_completion_approved"

\* ---- the team scope of group admins -------------------------------------
Managed(actor) == Users[actor].managed_teams

GroupAdmins == {a \in AnyAdmins : Users[a].role = GROUP_ADMIN}

\* C15 as stated: AdminCreate by a group admin succeeds only when the member's
\* team is one of the actor's managed teams and the task is global or of a
\* managed team; for a member of another team or of no team, or a task of an
\* unmanaged team, it fails with Forbidden and adds neither a completion nor
\* a notification.
C15_TeamlessMemberForbidden ==
    [][\A a \in GroupAdmins, u \in AnyMembers, tid \in DOMAIN tasks,
          st \in {NoneS, APPROVED, REJECTED} :
          (/\ create_user_completion(a, u, tid, None, 1, st, NoneS)
           /\ ~(/\ Users[u].team_id \in Managed(a)
                /\ (tasks[tid].team_id = None \/ tasks[tid].team_id \in Managed(a))))
              => UNCHANGED <<completions, notifications>>]_vars

\* the answer AdminCreate gives a group admin for an existing member and task
ExpectedScopeResult(a, u, tid) ==
    IF /\ Managed(a) # {}
       /\ (Users[u].team_id = None \/ Users[u].team_id \in Managed(a))
       /\ (tasks[tid].team_id = None \/ tasks[tid].team_id \in Managed(a))
    THEN "ok" ELSE "Forbidden"

\* C15 amended: AdminCreate by a group admin succeeds only when the actor
\* manages at least one team, the member belongs to a managed team or to no
\* team at all, and the task is global or of a managed team; otherwise it
\* fails with Forbidden and adds neither a completion nor a notification.  A
\* global admin is not restricted.
C15_ScopeOfGroupAdmin ==
    /\ [](\A a \in GroupAdmins, u \in AnyMembers, tid \in DOMAIN tasks :
            AdminCreateResult(a, u, tid, None, 1, NoneS) = ExpectedScopeResult(a, u, tid))
    /\ [](\A u \in AnyMembers, tid \in DOMAIN tasks :
            AdminCreateResult(4, u, tid, None, 1, NoneS) = "ok")
    /\ [][\A a \in GroupAdmins, u \in AnyMembers, tid \in DOMAIN tasks,
            st \in {NoneS, APPROVED, REJECTED} :
            create_user_completion(a, u, tid, None, 1, st, NoneS) =>
                IF ExpectedScopeResult(a, u, tid) = "ok"
                THEN /\ Len(completions') = Len(completions) + 1
                     /\ completions'[Len(completions')].member_id = u
                     /\ completions'[Len(completions')].reviewer_id = a
                     /\ Len(notifications') = Len(notifications) + 1
                ELSE UNCHANGED <<completions, notifications>>]_vars

\* a group admin has entered a completion for a member without a team, while a
\* task of a team the admin does not manage is refused
C15_TeamlessMemberServed ==
    /\ Len(completions) = 1
    /\ completions[1].member_id = 3
    /\ completions[1].reviewer_id = 5
    /\ notifications[1].user_id = 3
    /\ tasks[2].team_id = 2
    /\ AdminCreateResult(5, 1, 2, None, 1, NoneS) = "Forbidden"
    /\ AdminCreateResult(5, 2, 1, None, 1, NoneS) = "Forbidden"

\* C16: Review by a group admin changes a completion only if its member
\* belongs to one of the reviewer's managed teams; otherwise (a reviewer with
\* no managed teams and a member with no team included) it fails with
\* Forbidden and neither the completion nor the notifications change.
C16_ReviewWithinManagedTeams ==
    /\ [](\A cid \in DOMAIN completions, a \in GroupAdmins, st \in {APPROVED, REJECTED} :
            ReviewResult(cid, a, st) =
                IF Users[completions[cid].member_id].team_id \in Managed(a)
                THEN "ok" ELSE "Forbidden")
    /\ [][\A cid \in DOMAIN completions, a \in GroupAdmins, st \in {APPROVED, REJECTED} :
            review_completion(cid, a, st, NoneS) =>
                IF Users[completions[cid].member_id].team_id \in Managed(a)
                THEN /\ completions'[cid].status = st
                     /\ completions'[cid].reviewer_id = a
                     /\ Len(notifications') = Len(notifications) + 1
                ELSE UNCHANGED <<completions, notifications>>]_vars

\* a group admin has reviewed a completion of a member of a managed team
C16_ReviewedByGroupAdmin ==
    /\ Len(completions) = 1
    /\ completions[1].member_id = 1
    /\ completions[1].status = REJECTED
    /\ completions[1].reviewer_id = 5
    /\ Len(notifications) = 2
    /\ notifications[1].sender_id = 4
    /\ notifications[2].sender_id = 5
    /\ notifications[2].message.key = "completion_rejected"
    /\ ReviewResult(1, 6, APPROVED) = "Forbidden"

\* ---- window rollover ----------------------------------------------------

\* the length in hours of a limited task's period
PeriodHours(tid) ==
    tasks[tid].period_count *
        (CASE tasks[tid].period_unit = HOUR -> 1
           [] tasks[tid].period_unit = DAY -> 24
           [] tasks[tid].period_unit = WEEK -> 168
           [] tasks[tid].period_unit = MONTH -> 720)

\* the starts of the windows of task tid, anchored at its start_time
AnchoredStarts(tid) == {tasks[tid].start_time + k * PeriodHours(tid) : k \in 0 .. MaxTime}

\* what member m has used of task tid in the window containing the present
UsedNow(m, tid) ==
    LET from == CHOOSE f \in AnchoredStarts(tid) : f <= now /\ now < f + PeriodHours(tid)
    IN Usage(m, tid, from, from + PeriodHours(tid))

\* C17: once a member has used the whole allowance M of a window, every
\* Submit with count >= 1 before that window's end fails with BadRequest; from
\* the window's end on the completions of that window no longer count: a
\* Submit succeeds exactly when its count fits into what the window of the
\* present still has, so any count <= M succeeds as long as nothing was used
\* in it.  (The task's other checks are assumed to pass.)
C17_WindowRollover ==
    /\ [](\A m \in Submitters, tid \in TaskIds :
            (Limited(tid) /\ OtherChecksPass(m, tid, 1)) =>
                \A from \in AnchoredStarts(tid) :
                    Usage(m, tid, from, from + PeriodHours(tid)) >= tasks[tid].max_per_period =>
                        /\ (from <= now /\ now < from + PeriodHours(tid)) =>
                               \A count \in 1 .. MaxCount :
                                   SubmitResult(m, tid, count) = "BadRequest"
                        /\ now >= from + PeriodHours(tid) =>
                               \A count \in 1 .. MaxCount :
                                   SubmitResult(m, tid, count) =
                                       IF count <= tasks[tid].max_per_period - UsedNow(m, tid)
                                       THEN "ok" ELSE "BadRequest")
    /\ [][\A m \in Submitters, tid \in TaskIds, count \in 1 .. MaxCount :
            (/\ Limited(tid) /\ OtherChecksPass(m, tid, 1)
             /\ \E from \in AnchoredStarts(tid) :
                   /\ Usage(m, tid, from, from + PeriodHours(tid)) >= tasks[tid].max_per_period
                   /\ now >= from + PeriodHours(tid)
             /\ UsedNow(m, tid) = 0
             /\ count <= tasks[tid].max_per_period
             /\ Submit(m, tid, count)) =>
                /\ Len(completions') = Len(completions) + 1
                /\ completions'[Len(completions')].count = count
                /\ completions'[Len(completions')].submitted_at = now]_vars

\* member 1 filled the first window of task 1 and, after its end, was granted
\* the whole allowance of the next window
C17_NewWindowGranted ==
    /\ Usage(1, 1, 0, 2) = 2
    /\ now >= 2
    /\ \E i \in DOMAIN completions :
          /\ completions[i].member_id = 1
          /\ completions[i].task_id = 1
          /\ completions[i].submitted_at >= 2
          /\ completions[i].count = 2

\* ---- the recurrence fields of a task ------------------------------------

Unperioded(max_per_period, period_unit, period_count) ==
    max_per_period # None /\ (period_unit = NoneS \/ period_count = None)

\* the three recurrence fields task tid would have after the patch
Patched(tid, patch, field) ==
    IF field \in DOMAIN patch THEN patch[field] ELSE tasks[tid][field]

ApprovedOf(m, tid) ==
    {i \in DOMAIN completions :
        /\ completions[i].member_id = m
        /\ completions[i].task_id = tid
        /\ completions[i].status = APPROVED}

\* weight * metric value, summed over the first k components
RECURSIVE WeightedSum(_, _, _)
WeightedSum(m, components, k) ==
    IF k = 0 THEN 0
    ELSE WeightedSum(m, components, k - 1)
         + components[k].weight *
               (IF components[k].metric = POINTS
                THEN SumPoints(completions, ApprovedOf(m, components[k].task_id))
                ELSE SumCount(completions, ApprovedOf(m, components[k].task_id)))

MemberScore(m, category_id) ==
    WeightedSum(m, Categories[category_id], Len(Categories[category_id]))

\* C19: in every list the category leaderboard returns for scope members,
\* each member's score is the sum over all components of the category of
\* weight * metric value, the metric value being the sum of points_awarded
\* (metric points) or of count (metric completions) over the member's
\* approved completions of the component's task; pending and rejected
\* completions add nothing and zero or negative weights are applied as they
\* are.
C19_WeightedMemberScore ==
    \A category_id \in CategoryIds, limit \in Limits :
        \A board \in stats_leaderboard(category_id, "members", limit) :
            \A i \in DOMAIN board :
                board[i].score = MemberScore(board[i].entity_id, category_id)

\* member 1 is listed with a negative score while holding a pending or a
\* rejected completion besides approved ones of both tasks
C19_NegativeScoreListed ==
    /\ \E board \in stats_leaderboard(2, "members", 3) :
          \E i \in DOMAIN board : board[i].entity_id = 1 /\ board[i].score < 0
    /\ \E board \in stats_leaderboard(1, "members", 3) :
          \E i \in DOMAIN board : board[i].entity_id = 1 /\ board[i].score = 6
    /\ \E i \in DOMAIN completions :
          completions[i].member_id = 1 /\ completions[i].status # APPROVED

\* the members the per-member results of a category hold
ListedMembers(category_id) ==
    UNION {{board[i].entity_id : i \in DOMAIN board} :
              board \in stats_leaderboard(category_id, "members", Cardinality(UserIds))}

\* C20: in every list the category leaderboard returns for scope teams, each
\* team's score is the sum of the member scores of those of its members that
\* are in the per-member results, and its member_count is the number of
\* those members, not the size of the team; members without a team count for
\* no team.
C20_TeamScoreFromListedMembers ==
    \A category_id \in CategoryIds, limit \in Limits :
        \A board \in stats_leaderboard(category_id, "teams", limit) :
            \A i \in DOMAIN board :
                LET team_id == board[i].entity_id
                    contributing == {m \in ListedMembers(category_id) :
                                        Users[m].team_id = team_id}
                IN /\ team_id \in TeamIds
                   /\ contributing # {}
                   /\ board[i].member_count = Cardinality(contributing)
                   /\ board[i].score =
                          SumOver([m \in contributing |-> MemberScore(m, category_id)],
                                  contributing)

\* team 1 is listed with one contributing member out of its two, next to a
\* scored member without a team
C20_OneOfTwoContributes ==
    /\ Cardinality({m \in UserIds : Users[m].team_id = 1}) = 2
    /\ ListedMembers(1) = {3, 5}
    /\ \E board \in stats_leaderboard(1, "teams", 3) :
          /\ Len(board) = 1
          /\ board[1].entity_id = 1
          /\ board[1].member_count = 1
          /\ board[1].score = MemberScore(5, 1)
    /\ \E i \in DOMAIN completions :
          completions[i].member_id = 1 /\ completions[i].status = REJECTED

\* ---- the simple leaderboard and the profile ranks -------------------------

\* points_awarded summed over the approved ones among the first k rows of the
\* ledger that belong to the given members
RECURSIVE PointsUpTo(_, _)
PointsUpTo(users, k) ==
    IF k = 0 THEN 0
    ELSE PointsUpTo(users, k - 1)
         + (IF completions[k].member_id \in users /\ completions[k].status = APPROVED
            THEN completions[k].points_awarded ELSE 0)

ApprovedPoints(users) == PointsUpTo(users, Len(completions))

\* C21: every list the simple member leaderboard returns holds each user
\* exactly once, with the sum of points_awarded over the user's approved
\* completions as score (0 for a user with none); the rank of an entry is its
\* 1-based position, so the ranks are 1..n, and scores never increase with rank.
C21_MemberLeaderboard ==
    \A board \in member_leaderboard :
        /\ Len(board) = Cardinality(UserIds)
        /\ {board[i].entity_id : i \in DOMAIN board} = UserIds
        /\ \A i \in DOMAIN board :
              /\ board[i].rank = i
              /\ board[i].score = ApprovedPoints({board[i].entity_id})
        /\ \A i, j \in DOMAIN board : i < j => board[i].score >= board[j].score

\* two users with different positive scores lead the list, a user whose only
\* row is rejected is listed with score 0
C21_ZeroScoreListed ==
    \E board \in member_leaderboard :
        /\ board[1].score > board[2].score
        /\ board[2].score > 0
        /\ board[3].score = 0
        /\ \E i \in DOMAIN completions :
              /\ completions[i].member_id = board[3].entity_id
              /\ completions[i].status = REJECTED

WindowAt(tid, t) ==
    LET stats == _current_window_stats(completions, tasks[tid], tid, 1, t)
    IN [start |-> stats[2], end |-> stats[3]]

\* C23: for a limited task with period length delta, at any time t at or
\* after start_time the window has window_start <= t < window_end, length
\* delta, and starts a whole number of periods after start_time; at any time
\* before start_time the window is [start_time, start_time + delta).
C23_WindowComputation ==
    \A tid \in DOMAIN tasks, t \in 0 .. MaxProbe :
        Limited(tid) =>
            LET delta == PeriodHours(tid)
                start_time == tasks[tid].start_time
                w == WindowAt(tid, t)
            IN IF t >= start_time
               THEN /\ w.start <= t
                    /\ t < w.end
                    /\ w.end - w.start = delta
                    /\ \E k \in 0 .. MaxProbe : w.start - start_time = k * delta
               ELSE w = [start |-> start_time, end |-> start_time + delta]

\* task 2 has been given a limit with a period of three days starting at hour
\* 5: the calculator reports [5, 77) before the start and up to hour 76, and
\* [77, 149) from hour 77
C23_ThreeDayWindows ==
    /\ Limited(2)
    /\ tasks[2].start_time = 5
    /\ PeriodHours(2) = 72
    /\ WindowAt(2, 0) = [start |-> 5, end |-> 77]
    /\ WindowAt(2, 76) = [start |-> 5, end |-> 77]
    /\ WindowAt(2, 77) = [start |-> 77, end |-> 149]

\* count summed over those of the first k rows of the ledger that belong to
\* member m and task tid, are pending or approved, and were submitted in
\* [from, to)
RECURSIVE CountUpTo(_, _, _, _, _)
CountUpTo(m, tid, from, to, k) ==
    IF k = 0 THEN 0
    ELSE CountUpTo(m, tid, from, to, k - 1)
         + (IF /\ completions[k].member_id = m
               /\ completions[k].task_id = tid
               /\ completions[k].status \in {PENDING, APPROVED}
               /\ from <= completions[k].submitted_at
               /\ completions[k].submitted_at < to
            THEN completions[k].count ELSE 0)

\* C24: the usage the calculator reports for a member and a limited task at a
\* time t is the sum of count over exactly the member's pending or approved
\* completions of that task submitted in [window_start, window_end); rejected
\* rows, rows of other members or tasks and rows submitted outside the window
\* (at window_end included) add nothing.
C24_WindowUsage ==
    \A m \in Submitters, tid \in DOMAIN tasks, t \in 0 .. MaxTime :
        Limited(tid) =>
            LET stats == _current_window_stats(completions, tasks[tid], tid, m, t)
            IN stats[1] = CountUpTo(m, tid, stats[2], stats[3], Len(completions))

\* member 1 has, for task 1, a rejected row and a counted row in [0, 2) and a
\* row submitted at hour 2: the usage of the window [0, 2) is the counted row's
C24_RejectedAndBoundaryRows ==
    /\ Len(completions) = 3
    /\ \A i \in 1 .. 3 : completions[i].member_id = 1 /\ completions[i].task_id = 1
    /\ completions[1].status = REJECTED
    /\ completions[1].submitted_at = 0
    /\ completions[2].status # REJECTED
    /\ completions[2].submitted_at = 1
    /\ completions[3].status # REJECTED
    /\ completions[3].submitted_at = 2
    /\ _current_window_stats(completions, tasks[1], 1, 1, 1) = <<completions[2].count, 0, 2>>
    /\ _current_window_stats(completions, tasks[1], 1, 1, 2) = <<completions[3].count, 2, 4>>

\* C25: for a task with a limit the calculator reports the limit, the window
\* usage as current and remaining = max(max_per_period - usage, 0), which is
\* never negative even when the usage exceeds the limit; for a task without a
\* limit remaining, limit and both window bounds are null, current is the
\* lifetime usage, and no count makes Submit fail for the limit.
C25_RemainingClamped ==
    \A m \in Submitters, tid \in DOMAIN tasks :
        LET progress == _calculate_progress(completions, tasks[tid], tid, m, now)
            w == WindowAt(tid, now)
            usage == CountUpTo(m, tid, w.start, w.end, Len(completions))
            lifetime == CountUpTo(m, tid, 0, now + 1, Len(completions))
        IN IF tasks[tid].max_per_period # None
           THEN /\ progress.limit = tasks[tid].max_per_period
                /\ progress.current = usage
                /\ progress.remaining =
                       (IF tasks[tid].max_per_period > usage
                        THEN tasks[tid].max_per_period - usage ELSE 0)
                /\ progress.remaining >= 0
           ELSE /\ progress.remaining = None
                /\ progress.limit = None
                /\ progress.period_start = None
                /\ progress.period_end = None
                /\ progress.current = lifetime
                /\ progress.lifetime = lifetime
                /\ \A count \in {1, MaxCount, 999} :
                       OtherChecksPass(m, tid, count) => SubmitResult(m, tid, count) = "ok"

\* member 1 has used 4 of the 2 allowed in the window (remaining 0) and has
\* a lifetime usage of 2 on task 2, which has no limit and accepts count 999
C25_UsageAboveLimit ==
    /\ CountUpTo(1, 1, 0, 2, Len(completions)) = 4
    /\ tasks[1].max_per_period = 2
    /\ _calculate_progress(completions, tasks[1], 1, 1, now).remaining = 0
    /\ _calculate_progress(completions, tasks[2], 2, 1, now).current = 2
    /\ _calculate_progress(completions, tasks[2], 2, 1, now).remaining = None
    /\ SubmitResult(1, 2, 999) = "ok"

\* what the calculator reports for member m and task tid at the current time
Reported(m, tid) ==
    LET progress == _calculate_progress(completions, tasks[tid], tid, m, now)
    IN <<progress.current, progress.remaining, progress.period_start, progress.period_end>>

\* the times t and u lie in the same window of task tid (any two times do
\* when the task has no limit)
SameWindow(tid, t, u) ==
    \/ ~Limited(tid)
    \/ \E from \in AnchoredStarts(tid) :
          /\ from <= t /\ t < from + PeriodHours(tid)
          /\ from <= u /\ u < from + PeriodHours(tid)

\* C26: a read of the task list, which calls the calculator for each task,
\* changes no state; and over any step that writes neither the ledger nor the
\* tasks and stays in the same window of a task, the calculator reports the
\* same current, remaining, window_start and window_end for every member.
C26_CalculatorIsPureRead ==
    /\ [][(\E m \in Submitters : list_tasks(m)) => UNCHANGED vars]_vars
    /\ [][(completions' = completions /\ tasks' = tasks) =>
             \A m \in Submitters, tid \in DOMAIN tasks :
                 SameWindow(tid, now, now') => Reported(m, tid)' = Reported(m, tid)]_vars

\* the clock has moved from hour 2 to hour 3 inside the window [2, 4) of task
\* 1, in which member 1 has used one of the two allowed
C26_SameWindowLaterRead ==
    /\ now = 3
    /\ Len(completions) = 1
    /\ completions[1].member_id = 1
    /\ completions[1].task_id = 1
    /\ completions[1].submitted_at = 2
    /\ Reported(1, 1) = <<1, 1, 2, 4>>
    /\ DOMAIN ListTasksResult(1) = {1, 2}
    /\ DOMAIN ListTasksResult(2) = {1}

\* ---- inclusion in the category leaderboard --------------------------------

\* the value of the k-th component of a category for member m
MetricOf(m, category_id, k) ==
    LET component == Categories[category_id][k] IN
    IF component.metric = POINTS
    THEN SumPoints(completions, ApprovedOf(m, component.task_id))
    ELSE SumCount(completions, ApprovedOf(m, component.task_id))

\* the metric values of the first k components, added up
RECURSIVE MetricSum(_, _, _)
MetricSum(m, category_id, k) ==
    IF k = 0 THEN 0 ELSE MetricSum(m, category_id, k - 1) + MetricOf(m, category_id, k)

SomeMetric(m, category_id) ==
    \E k \in DOMAIN Categories[category_id] : MetricOf(m, category_id, k) # 0

\* C27 as stated: a member is in the results of a category if and only if one
\* of its metric values is nonzero or its score is nonzero.
C27_ListedIffSomeMetric ==
    \A category_id \in CategoryIds, m \in UserIds :
        m \in ListedMembers(category_id)
            <=> (SomeMetric(m, category_id) \/ MemberScore(m, category_id) # 0)

\* C27 amended: a member is in the results of a category if and only if the
\* sum of its metric values over the components is nonzero or its score is
\* nonzero; a listed member therefore has a nonzero metric value, and a member
\* with no approved completion of the category's tasks is left out.
C27_ListedIffRawOrScore ==
    \A category_id \in CategoryIds, m \in UserIds :
        /\ m \in ListedMembers(category_id)
             <=> \/ MetricSum(m, category_id, Len(Categories[category_id])) # 0
                 \/ MemberScore(m, category_id) # 0
        /\ m \in ListedMembers(category_id) => SomeMetric(m, category_id)
        /\ (\A k \in DOMAIN Categories[category_id] :
               ApprovedOf(m, Categories[category_id][k].task_id) = {})
              => m \notin ListedMembers(category_id)

\* member 1 has an approved completion of task 1 worth -1 point: in category 4
\* its points and its completions cancel and it is left out, in category 2 it
\* is listed; member 3, whose only completion is rejected, is listed nowhere
C27_CancellingMetrics ==
    /\ Len(completions) = 2
    /\ completions[1].member_id = 1
    /\ completions[1].task_id = 1
    /\ completions[1].status = APPROVED
    /\ completions[1].points_awarded = 0 - 1
    /\ completions[2].member_id = 3
    /\ completions[2].status = REJECTED
    /\ SomeMetric(1, 4)
    /\ ListedMembers(4) = {}
    /\ ListedMembers(2) = {1}

\* ---- admin entries and the recurrence limit -------------------------------

\* the usage of member m in the current window of the limited task tid
UsageNow(m, tid) ==
    CountUpTo(m, tid, WindowAt(tid, now).start, WindowAt(tid, now).end, Len(completions))

\* C28: AdminCreate and AdminUpdate by a global admin succeed whatever the
\* member's remaining allowance, the task's archive flag and the task's
\* activity window, for any valid count; the rows they leave pending or
\* approved count toward the member's window usage, which can so exceed
\* max_per_period; and once the usage has reached max_per_period every Submit
\* by the member that passes the earlier checks is refused.
C28_AdminIgnoresLimit ==
    /\ \A tid \in DOMAIN tasks, count \in {1, MaxCount, 999}, st \in {NoneS, APPROVED, REJECTED} :
          AdminCreateResult(4, 1, tid, None, count, st) = "ok"
    /\ \A cid \in DOMAIN completions, count \in {1, MaxCount, 999} :
          AdminUpdateResult(4, completions[cid].member_id, cid, count, NoneS, NoneS) = "ok"
    /\ \A tid \in DOMAIN tasks :
          Limited(tid) =>
              /\ _calculate_progress(completions, tasks[tid], tid, 1, now).current
                     = UsageNow(1, tid)
              /\ UsageNow(1, tid) >= tasks[tid].max_per_period =>
                     \A count \in 1 .. MaxCount :
                         OtherChecksPass(1, tid, count) =>
                             SubmitResult(1, tid, count) = "BadRequest"

\* the admin has entered two completions of count 2 for member 1 in the
\* window [0, 2) of task 1, the second one with nothing remaining: 4 are used
\* of the 2 allowed, and the task is archived
C28_AdminOverLimit ==
    /\ Len(completions) = 2
    /\ \A i \in 1 .. 2 :
          /\ completions[i].member_id = 1
          /\ completions[i].task_id = 1
          /\ completions[i].reviewer_id = 4
          /\ completions[i].status = APPROVED
          /\ completions[i].count = 2
    /\ completions[1].submitted_at = 0
    /\ completions[2].submitted_at = 1
    /\ tasks[1].is_archived
    /\ tasks[1].max_per_period = 2
    /\ UsageNow(1, 1) = 4
    /\ now = 1

\* ---- reviews and the recurrence limit -------------------------------------

\* row cid belongs to member 1 and was submitted in the current window of its
\* task, which has a limit
InCurrentWindow(cid) ==
    /\ completions[cid].member_id = 1
    /\ Limited(completions[cid].task_id)
    /\ WindowAt(completions[cid].task_id, now).start <= completions[cid].submitted_at
    /\ completions[cid].submitted_at < WindowAt(completions[cid].task_id, now).end

\* the effect on the window usage of a step that changes the status of a row
\* submitted in the current window
ReviewMovesUsage ==
    \A cid \in DOMAIN completions :
        (/\ completions'[cid].status # completions[cid].status
         /\ InCurrentWindow(cid)) =>
            LET tid == completions[cid].task_id
                before == UsageNow(1, tid)
                after == UsageNow(1, tid)'
            IN /\ (completions[cid].status # REJECTED /\ completions'[cid].status = REJECTED)
                      => after = before - completions[cid].count
               /\ (completions[cid].status = REJECTED /\ completions'[cid].status = APPROVED)
                      => /\ after = before + completions[cid].count
                         /\ Remaining(1, tid)' =
                                (IF tasks[tid].max_per_period > after
                                 THEN tasks[tid].max_per_period - after ELSE 0)

\* C29: Review by the admin to approved or rejected is accepted for every row
\* whatever the member's window usage; a Review to rejected of a counted row
\* submitted in the member's current window lowers the window usage by the
\* row's count, and the member can then submit up to the freed allowance; a
\* Review back to approved of a rejected row adds its count again, unchecked,
\* and remaining reports max(max_per_period - usage, 0).
C29_RejectionFreesAllowance ==
    /\ [](\A cid \in DOMAIN completions, st \in {APPROVED, REJECTED} :
             ReviewResult(cid, 4, st) = "ok")
    /\ [](\A tid \in DOMAIN tasks, count \in 1 .. MaxCount :
             (Limited(tid) /\ OtherChecksPass(1, tid, count)
              /\ count <= tasks[tid].max_per_period - UsageNow(1, tid))
                 => SubmitResult(1, tid, count) = "ok")
    /\ [][(Len(completions') = Len(completions) /\ completions' # completions)
             => ReviewMovesUsage]_vars

\* member 1 submitted 2, was rejected, submitted 2 again, and the first
\* completion was then approved: 4 are used of the 2 allowed, remaining is 0
C29_ReapprovedOverLimit ==
    /\ Len(completions) = 2
    /\ \A i \in 1 .. 2 :
          /\ completions[i].member_id = 1
          /\ completions[i].task_id = 1
          /\ completions[i].count = 2
          /\ completions[i].status # REJECTED
    /\ completions[1].status = APPROVED
    /\ completions[1].reviewer_id = 4
    /\ Len(notifications) = 2
    /\ notifications[1].message.key = "completion_rejected"
    /\ notifications[2].message.key = "completion_approved"
    /\ UsageNow(1, 1) = 4
    /\ Remaining(1, 1) = 0

\* ---- the period of a limited task -----------------------------------------

\* C30: in every state reached by create_task and update_task calls, partial
\* updates and explicit nulls included, a task whose max_per_period is set has
\* period_unit and period_count set, so its window length is defined and
\* positive and the calculator reports a window for it.
C30_LimitedTaskHasWindow ==
    \A tid \in DOMAIN tasks :
        tasks[tid].max_per_period # None =>
            /\ tasks[tid].period_unit \in TaskPeriodUnit
            /\ tasks[tid].period_count # None
            /\ _window_delta(tasks[tid]) # None
            /\ _window_delta(tasks[tid]) >= 1
            /\ WindowAt(tid, now).end - WindowAt(tid, now).start = _window_delta(tasks[tid])

\* task 2 got its period and then its limit by three partial updates, task 3
\* was created with a limit; an update that nulls only the period_unit or
\* only the period_count of task 2 is refused
C30_LimitSetInSteps ==
    /\ tasks[2].max_per_period = 1
    /\ tasks[2].period_unit = HOUR
    /\ tasks[2].period_count = 1
    /\ 3 \in DOMAIN tasks
    /\ tasks[3].max_per_period = 1
    /\ UpdateTaskResult(4, 2, "period_unit" :> NoneS) = "BadRequest"
    /\ UpdateTaskResult(4, 2, "period_count" :> None) = "BadRequest"
    /\ UpdateTaskResult(4, 2, "max_per_period" :> None) = "ok"

====
